---- MODULE Spec2Model ----
(***************************************************************************)
(* A model of dmitrymomot/mongo-repository: the generic repository         *)
(* (repository.go), the filter fragments (FilterFunc, Eq, Gt, And, ...),    *)
(* the full-text extension (full_text_search.go) and the index options.     *)
(*                                                                         *)
(* The MongoDB driver and server are the repository's collaborator.  They   *)
(* are modelled at the places where the repository calls them: a collection *)
(* is the sequence of its documents in natural (insertion) order, a         *)
(* document is a function from field names to values, an error is the set   *)
(* of error values errors.Is finds in it (errors.Join is set union, the nil *)
(* error the empty set).                                                    *)
(***************************************************************************)
EXTENDS Integers, Sequences, FiniteSets, TLC

VARIABLES
    collection,   \* the documents of r.collection, in natural order
    indexes,      \* the indexes of r.collection
    nextOid,      \* how many ObjectIDs the driver has generated
    last,         \* the last repository call: its arguments and what it returned
    created,      \* history: the entities Create stored, not written to since
    arrays,       \* Go heap: the backing arrays of bson.D slices
    accs,         \* the bson.D values (slice headers) a caller holds
    lastApply,    \* the last fragment application on the heap
    arch,         \* the architecture the program was built for
    handle,       \* the collection field of the repository (r.collection)
    procs         \* the goroutines that call the repository at the same time

vars ==
    <<collection, indexes, nextOid, last, created, arrays, accs, lastApply, arch,
      handle, procs>>

\* what the fragments on the heap leave alone (the build never changes, and
\* nothing but the constructor assigns the collection field)
storeVars == <<collection, indexes, nextOid, last, created, arch, handle, procs>>

\* what the repository's operations leave alone
heapVars == <<arrays, accs, lastApply, arch, handle, procs>>

----------------------------------------------------------------------------
(* Bounds of the model. *)

\* documents a collection holds at most (Create is disabled beyond it)
MaxDocs == 2

\* ObjectIDs the driver generates at most
MaxCreates == 2

\* documents of the largest pre-existing collection of the query runs
MaxQueryDocs == 2

\* documents of the largest pre-existing collection of the pagination runs
MaxPopulation == 11

\* bson.D values a caller of the filter builder holds at most
MaxAccs == 5

(* Program constants. *)

\* FindManyByFilter, Search: "if limit == 0 { limit = 10 }"
DefaultLimit == 10

\* an ObjectID in hexadecimal: primitive.ObjectIDFromHex accepts exactly 24 digits
HexLen == 24

----------------------------------------------------------------------------
(* Generic helpers. *)

Min(a, b) == IF a < b THEN a ELSE b

Max(a, b) == IF a < b THEN b ELSE a

Range(s) == {s[i] : i \in 1..Len(s)}

\* the subsequence of s holding the elements that satisfy Test, in order
RECURSIVE SelectIdx(_, _, _)
SelectIdx(s, keep, i) ==
    IF i > Len(s) THEN <<>>
    ELSE (IF i \in keep THEN <<s[i]>> ELSE <<>>) \o SelectIdx(s, keep, i + 1)

\* s without its first n elements
Drop(s, n) == IF n >= Len(s) THEN <<>> ELSE SubSeq(s, n + 1, Len(s))

\* the first n elements of s
Take(s, n) == SubSeq(s, 1, Min(n, Len(s)))

----------------------------------------------------------------------------
(* Identifiers: primitive.ObjectID and its hexadecimal string form.        *)
(* A string is the sequence of its characters; an ObjectID is the sequence *)
(* of its 24 hexadecimal digits' values.                                    *)

LowerHex == <<"0", "1", "2", "3", "4", "5", "6", "7", "8", "9", "a", "b", "c", "d", "e", "f">>

UpperHex == <<"0", "1", "2", "3", "4", "5", "6", "7", "8", "9", "A", "B", "C", "D", "E", "F">>

IsHexChar(c) == \E i \in 1..16 : LowerHex[i] = c \/ UpperHex[i] = c

HexVal(c) == CHOOSE v \in 0..15 : LowerHex[v + 1] = c \/ UpperHex[v + 1] = c

\* oid.Hex(): lower-case digits
Hex(oid) == [i \in 1..Len(oid.b) |-> LowerHex[oid.b[i] + 1]]

\* mutation of ObjectIDFromHex: a malformed string is taken for the nil
\* identifier
ObjectIDFromHexLenient(id) ==
    IF Len(id) # HexLen \/ \E i \in 1..Len(id) : ~IsHexChar(id[i])
    THEN [ok |-> TRUE, oid |-> [t |-> "oid", b |-> [i \in 1..HexLen |-> 0]]]
    ELSE [ok |-> TRUE, oid |-> [t |-> "oid", b |-> [i \in 1..HexLen |-> HexVal(id[i])]]]

\* primitive.ObjectIDFromHex(id): an error unless id is 24 hexadecimal digits
ObjectIDFromHex(id) ==
    IF Len(id) # HexLen \/ \E i \in 1..Len(id) : ~IsHexChar(id[i])
    THEN [ok |-> FALSE, oid |-> [t |-> "oid", b |-> <<>>]]
    ELSE [ok |-> TRUE, oid |-> [t |-> "oid", b |-> [i \in 1..HexLen |-> HexVal(id[i])]]]

\* the ObjectID whose two last digits spell n
OidOf(n) ==
    [t |-> "oid",
     b |-> [i \in 1..HexLen |->
              IF i = HexLen THEN n % 16
              ELSE IF i = HexLen - 1 THEN (n \div 16) % 16
              ELSE 0]]

\* primitive.NilObjectID, the zero value of an identifier field
NilObjectID == OidOf(0)

\* the k-th ObjectID the driver generates (digits ...0a, ...0b, ...)
GenOid(k) == OidOf(9 + k)

\* an ObjectID the caller chose itself (primitive.NewObjectID() in the caller)
PresetOid == OidOf(1)

\* an identifier that is no ObjectID (an entity type whose _id is an integer)
IntId == [t |-> "int", b |-> <<7>>]

\* the string of a hexadecimal identifier in upper case
ToUpper(s) == [i \in 1..Len(s) |-> IF IsHexChar(s[i]) THEN UpperHex[HexVal(s[i]) + 1] ELSE s[i]]

----------------------------------------------------------------------------
(* Entities and documents.                                                  *)
(* The entity type T of the model is the tests' User types in one, with one *)
(* more field:                                                              *)
(*   ID `bson:"_id,omitempty"`, Name `bson:"name"`, Email `bson:"email"`,   *)
(*   Bio `bson:"bio,omitempty"`, Age `bson:"age"`.                          *)
(* Name is a text, the sequence of its words.                               *)

User(id, name, email, age) ==
    [ID |-> id, Name |-> name, Email |-> email, Bio |-> "", Age |-> age]

\* the entity with its Bio set
WithBio(user, bio) == [user EXCEPT !.Bio = bio]

\* the entity values the callers of the model pass (without identifier)
UserValues ==
    << User(NilObjectID, <<"test">>, "x", 20),
       User(NilObjectID, <<"web", "test", "test">>, "y", 40),
       User(NilObjectID, <<"web">>, "x", 40) >>

\* the identifiers an entity passed to Create or Update carries
UserIDs == <<NilObjectID, PresetOid, IntId>>

\* omitempty: a zero identifier is left out of the document
IsZeroID(id) == id = NilObjectID \/ (id.t = "int" /\ id.b = <<0>>)

\* bson.Marshal of an entity: the struct's fields under their bson tags,
\* an omitempty field left out when it holds its zero value
Encode(model) ==
    [k \in (IF IsZeroID(model.ID) THEN {} ELSE {"_id"})
            \cup (IF model.Bio = "" THEN {} ELSE {"bio"})
            \cup {"name", "email", "age"} |->
       CASE k = "_id" -> model.ID
         [] k = "name" -> model.Name
         [] k = "email" -> model.Email
         [] k = "bio" -> model.Bio
         [] OTHER -> model.Age]

\* Decode(&result): every tagged field present in the document is set, the
\* other fields keep their zero value
Decode(doc) ==
    [ID    |-> IF "_id" \in DOMAIN doc THEN doc["_id"] ELSE NilObjectID,
     Name  |-> IF "name" \in DOMAIN doc THEN doc["name"] ELSE <<>>,
     Email |-> IF "email" \in DOMAIN doc THEN doc["email"] ELSE "",
     Bio   |-> IF "bio" \in DOMAIN doc THEN doc["bio"] ELSE "",
     Age   |-> IF "age" \in DOMAIN doc THEN doc["age"] ELSE 0]

\* var result T: the zero value of the entity type
ZeroUser == User(NilObjectID, <<>>, "", 0)

\* a document with field k set to v
SetField(doc, k, v) == [x \in DOMAIN doc \cup {k} |-> IF x = k THEN v ELSE doc[x]]

\* a document with the fields of upd set ($set)
SetFields(doc, upd) ==
    [x \in DOMAIN doc \cup DOMAIN upd |-> IF x \in DOMAIN upd THEN upd[x] ELSE doc[x]]

----------------------------------------------------------------------------
(* Errors.  An error is the set of the error values errors.Is finds in it.  *)

ErrNotFound == "ErrNotFound"

ErrDuplicate == "ErrDuplicate"

ErrFailedToFindByID == "ErrFailedToFindByID"

ErrFailedToFindByIDs == "ErrFailedToFindByIDs"

ErrInvalidDocumentID == "ErrInvalidDocumentID"

ErrFailedToCreate == "ErrFailedToCreate"

ErrFailedToUpdate == "ErrFailedToUpdate"

ErrFailedToUpdateMany == "ErrFailedToUpdateMany"

ErrFailedToDelete == "ErrFailedToDelete"

ErrFailedToFindOneByFilter == "ErrFailedToFindOneByFilter"

ErrFailedToFindManyByFilter == "ErrFailedToFindManyByFilter"

ErrFailedToCreateIndex == "ErrFailedToCreateIndex"

ErrFailedToDeleteMany == "ErrFailedToDeleteMany"

\* the nil error
NoErr == {}

\* the driver's and the server's own errors
RawInvalidHex == "driver: the provided hex string is not a valid ObjectID"

RawDuplicateKey == "server: E11000 duplicate key error"

RawNoDocuments == "mongo: no documents in result"

RawBadValue == "server: BadValue"

RawImmutableField == "server: ImmutableField _id"

RawIndexConflict == "server: IndexOptionsConflict"

RawCannotCreateIndex == "server: CannotCreateIndex"

RawIO == "driver: connection failed"

RawDecode == "driver: cannot decode document"

\* errors.Join(a, b): errors.Is finds what it finds in a or in b
Join(a, b) == a \cup b

\* mutation of IsDuplicateKeyError: no error is taken for a duplicate key
IsDuplicateKeyErrorNever(err) == FALSE

\* mongo.IsDuplicateKeyError(err)
IsDuplicateKeyError(err) == RawDuplicateKey \in err

----------------------------------------------------------------------------
(* The filter fragments (FilterFunc).                                       *)
(* A fragment is the closure a constructor returns; the model keeps what    *)
(* the closure captured: [op, field, value, subs].  A bson.E is             *)
(* [Key, Value]; a Go value is tagged with its Go type:                     *)
(*   [k |-> "lit", v]        the value the caller passed                    *)
(*   [k |-> "M", m]          a bson.M, the sequence of its (op, val) entries*)
(*   [k |-> "sliceE", elems] a []bson.E                                     *)

Frag(op, field, value) == [op |-> op, field |-> field, value |-> value, subs |-> <<>>]

Eq(field, value) == Frag("Eq", field, value)

Gt(field, value) == Frag("Gt", field, value)

Lt(field, value) == Frag("Lt", field, value)

In(field, values) == Frag("In", field, values)

Ne(field, value) == Frag("Ne", field, value)

Lte(field, value) == Frag("Lte", field, value)

Gte(field, value) == Frag("Gte", field, value)

Exists(field, exists) == Frag("Exists", field, exists)

Regex(field, pattern, options) == Frag("Regex", field, <<pattern, options>>)

TextSearch(searchTerm) == Frag("TextSearch", "$text", searchTerm)

And(filters) == [op |-> "And", field |-> "$and", value |-> 0, subs |-> filters]

Or(filters) == [op |-> "Or", field |-> "$or", value |-> 0, subs |-> filters]

E(key, value) == [Key |-> key, Value |-> value]

Lit(v) == [k |-> "lit", v |-> v]

\* bson.M{op: v}
M1(op, v) == [k |-> "M", m |-> <<[op |-> op, val |-> Lit(v)]>>]

\* the comparison operator a one-operator fragment writes
OperatorOf(op) ==
    CASE op = "Gt" -> "$gt"
      [] op = "Lt" -> "$lt"
      [] op = "In" -> "$in"
      [] op = "Ne" -> "$ne"
      [] op = "Lte" -> "$lte"
      [] op = "Gte" -> "$gte"
      [] OTHER -> "$exists"

\* And and Or collecting what their children return from the last to the first
RECURSIVE ClausesReversed(_)
ClausesReversed(f) ==
    CASE f.op = "Eq" -> <<E(f.field, Lit(f.value))>>
      [] f.op \in {"Gt", "Lt", "In", "Ne", "Lte", "Gte", "Exists"} ->
           <<E(f.field, M1(OperatorOf(f.op), f.value))>>
      [] f.op = "Regex" ->
           <<E(f.field, [k |-> "M", m |-> <<[op |-> "$regex", val |-> Lit(f.value[1])],
                                             [op |-> "$options", val |-> Lit(f.value[2])]>>])>>
      [] f.op = "TextSearch" -> <<E("$text", M1("$search", f.value))>>
      [] OTHER ->
           LET RECURSIVE Collect(_)
               Collect(i) ==
                   IF i > Len(f.subs) THEN <<>>
                   ELSE Collect(i + 1) \o ClausesReversed(f.subs[i])
           IN <<E(f.field, [k |-> "sliceE", elems |-> Collect(1)])>>

\* the bson.E values a fragment appends to the filter it is given: the closure
\* bodies "return append(filter, bson.E{...})".  And and Or run every child
\* on an empty bson.D and collect what the children return into one []bson.E.
RECURSIVE Clauses(_)
Clauses(f) ==
    CASE f.op = "Eq" -> <<E(f.field, Lit(f.value))>>
      [] f.op \in {"Gt", "Lt", "In", "Ne", "Lte", "Gte", "Exists"} ->
           <<E(f.field, M1(OperatorOf(f.op), f.value))>>
      [] f.op = "Regex" ->
           <<E(f.field, [k |-> "M", m |-> <<[op |-> "$regex", val |-> Lit(f.value[1])],
                                             [op |-> "$options", val |-> Lit(f.value[2])]>>])>>
      [] f.op = "TextSearch" -> <<E("$text", M1("$search", f.value))>>
      [] OTHER ->
           LET RECURSIVE Collect(_)
               Collect(i) ==
                   IF i > Len(f.subs) THEN <<>>
                   ELSE Clauses(f.subs[i]) \o Collect(i + 1)
           IN <<E(f.field, [k |-> "sliceE", elems |-> Collect(1)])>>

\* f(filter): the filter a fragment returns for the filter it is given
ApplyFilterFunc(f, filter) == filter \o Clauses(f)

\* "filter := bson.D{}; for _, f := range filters { filter = f(filter) }"
RECURSIVE BuildFilterFrom(_, _, _)
BuildFilterFrom(filters, i, filter) ==
    IF i > Len(filters) THEN filter
    ELSE BuildFilterFrom(filters, i + 1, ApplyFilterFunc(filters[i], filter))

BuildFilter(filters) == BuildFilterFrom(filters, 1, <<>>)

----------------------------------------------------------------------------
(* The driver's encoding of a filter and the server's reading of it.        *)
(* A BSON value on the wire is                                              *)
(*   [k |-> "lit", v], [k |-> "doc", elems] or [k |-> "array", items].      *)
(* The driver's slice codec writes a bson.D, and every slice convertible to *)
(* one ([]bson.E), as an embedded document, not as an array; a bson.M is    *)
(* written as a document as well.                                           *)

RECURSIVE MarshalValue(_)
MarshalValue(val) ==
    CASE val.k = "lit" -> val
      [] val.k = "M" ->
           [k |-> "doc",
            elems |-> [i \in 1..Len(val.m) |-> E(val.m[i].op, MarshalValue(val.m[i].val))]]
      [] val.k = "A" ->
           [k |-> "array", items |-> [i \in 1..Len(val.items) |-> MarshalValue(val.items[i])]]
      [] OTHER ->
           [k |-> "doc",
            elems |-> [i \in 1..Len(val.elems) |->
                         E(val.elems[i].Key, MarshalValue(val.elems[i].Value))]]

\* the filter document the driver sends for a bson.D
MarshalFilter(filter) == [i \in 1..Len(filter) |-> E(filter[i].Key, MarshalValue(filter[i].Value))]

----------------------------------------------------------------------------
(* The server: indexes, text search, the matching of a filter document.     *)
(* An index is [keys, opts]: keys the bson.D of the index model (value 1 or *)
(* "text" per field, written "1" and "text"), opts the                      *)
(* options.IndexOptions record, every option a pointer: <<>> is nil, <<v>>  *)
(* is set.                                                                  *)

\* options.Index()
NewIndexOptions ==
    [Unique |-> <<>>, Sparse |-> <<>>, ExpireAfterSeconds |-> <<>>, Name |-> <<>>,
     Weights |-> <<>>, DefaultLanguage |-> <<>>, Hidden |-> <<>>,
     PartialFilterExpression |-> <<>>, Collation |-> <<>>, WildcardProjection |-> <<>>]

IsTextIndex(ix) == \E i \in 1..Len(ix.keys) : ix.keys[i].Value = "text"

IsUniqueIndex(ix) == ix.opts.Unique = <<TRUE>>

IsSparseIndex(ix) == ix.opts.Sparse = <<TRUE>>

\* the fields an index covers
IndexFields(ix) == {ix.keys[i].Key : i \in 1..Len(ix.keys)}

HasTextIndex(idx) == \E ix \in idx : IsTextIndex(ix)

TheTextIndex(idx) == CHOOSE ix \in idx : IsTextIndex(ix)

\* the weight of a field of a text index (1 when the weights do not name it)
WeightOf(ix, field) ==
    IF ix.opts.Weights # <<>> /\ \E i \in 1..Len(ix.opts.Weights[1]) : ix.opts.Weights[1][i].Key = field
    THEN LET i == CHOOSE i \in 1..Len(ix.opts.Weights[1]) : ix.opts.Weights[1][i].Key = field
         IN ix.opts.Weights[1][i].Value
    ELSE 1

\* the words of a text field of a document
WordsOf(doc, field) ==
    IF field \notin DOMAIN doc THEN <<>>
    ELSE IF field = "name" THEN doc[field]
    ELSE IF field = "email" THEN <<doc[field]>>
    ELSE <<>>

CountWord(words, w) == Cardinality({i \in 1..Len(words) : words[i] = w})

RECURSIVE SumSeq(_)
SumSeq(s) == IF s = <<>> THEN 0 ELSE Head(s) + SumSeq(Tail(s))

\* how often the document holds word w, weighted per field
WordScore(doc, ix, w) ==
    SumSeq([i \in 1..Len(ix.keys) |->
              WeightOf(ix, ix.keys[i].Key) * CountWord(WordsOf(doc, ix.keys[i].Key), w)])

\* the relevance ($meta textScore) of a document for a search term: the
\* weighted frequency of its positive words.  A search term is the sequence
\* of its space-separated tokens, [w, neg], neg for a token written "-w".
TextScore(doc, ix, term) ==
    SumSeq([i \in 1..Len(term) |-> IF term[i].neg THEN 0 ELSE WordScore(doc, ix, term[i].w)])

\* $text: some positive word occurs and no excluded word does
TextMatches(doc, ix, term) ==
    /\ \E i \in 1..Len(term) : ~term[i].neg /\ WordScore(doc, ix, term[i].w) > 0
    /\ \A i \in 1..Len(term) : term[i].neg => WordScore(doc, ix, term[i].w) = 0

\* one operator of a field's condition document
MatchOperator(doc, field, op, v) ==
    CASE op = "$gt" -> field \in DOMAIN doc /\ doc[field] > v
      [] op = "$lt" -> field \in DOMAIN doc /\ doc[field] < v
      [] op = "$gte" -> field \in DOMAIN doc /\ doc[field] >= v
      [] op = "$lte" -> field \in DOMAIN doc /\ doc[field] <= v
      [] op = "$ne" -> field \notin DOMAIN doc \/ doc[field] # v
      [] op = "$in" -> field \in DOMAIN doc /\ \E i \in 1..Len(v) : doc[field] = v[i]
      [] op = "$exists" -> (field \in DOMAIN doc) = v
      [] op = "$regex" -> field \in DOMAIN doc /\ doc[field] = v
      [] OTHER -> TRUE

\* whether the server rejects a filter document (BadValue): $and and $or
\* must be nonempty arrays of documents, $text needs a text index
RECURSIVE BadFilter(_, _)
BadFilter(wire, idx) ==
    \E i \in 1..Len(wire) :
        LET c == wire[i] IN
        CASE c.Key \in {"$and", "$or"} ->
               \/ c.Value.k # "array"
               \/ c.Value.items = <<>>
               \/ \E j \in 1..Len(c.Value.items) :
                     \/ c.Value.items[j].k # "doc"
                     \/ BadFilter(c.Value.items[j].elems, idx)
          [] c.Key = "$text" -> c.Value.k # "doc" \/ ~HasTextIndex(idx)
          [] OTHER -> FALSE

\* whether a document matches a filter document the server accepts: every
\* element of the filter document holds
RECURSIVE Matches(_, _, _)
Matches(doc, wire, idx) ==
    \A i \in 1..Len(wire) :
        LET c == wire[i] IN
        CASE c.Key = "$and" ->
               \A j \in 1..Len(c.Value.items) : Matches(doc, c.Value.items[j].elems, idx)
          [] c.Key = "$or" ->
               \E j \in 1..Len(c.Value.items) : Matches(doc, c.Value.items[j].elems, idx)
          [] c.Key = "$text" ->
               TextMatches(doc, TheTextIndex(idx), c.Value.elems[1].Value.v)
          [] c.Value.k = "lit" -> c.Key \in DOMAIN doc /\ doc[c.Key] = c.Value.v
          [] OTHER ->
               \A j \in 1..Len(c.Value.elems) :
                   MatchOperator(doc, c.Key, c.Value.elems[j].Key, c.Value.elems[j].Value.v)

\* the positions of the documents of a collection that match
MatchSet(coll, wire, idx) == {i \in 1..Len(coll) : Matches(coll[i], wire, idx)}

\* the matching documents in natural order
MatchSeq(coll, wire, idx) == SelectIdx(coll, MatchSet(coll, wire, idx), 1)

\* sort {score: {$meta: textScore}}: descending score, equal scores in
\* natural order (insertion sort); scores[i] is the score of docs[i]
RECURSIVE InsertByScore(_, _, _)
InsertByScore(sorted, j, scores) ==
    IF sorted = <<>> THEN <<j>>
    ELSE IF scores[Head(sorted)] >= scores[j]
         THEN <<Head(sorted)>> \o InsertByScore(Tail(sorted), j, scores)
         ELSE <<j>> \o sorted

RECURSIVE SortOrder(_, _)
SortOrder(scores, i) ==
    IF i = 0 THEN <<>>
    ELSE InsertByScore(SortOrder(scores, i - 1), i, scores)

SortByScore(docs, scores) ==
    LET order == SortOrder(scores, Len(docs)) IN [i \in 1..Len(docs) |-> docs[order[i]]]

----------------------------------------------------------------------------
(* The driver's collection operations, as the repository calls them.  Each  *)
(* takes the collection's state and a fault ("none", or the way the call    *)
(* fails for reasons outside the program: "io") and returns its results     *)
(* and the collection's next state.                                         *)

\* two documents hold the same key of an index (a document without the
\* field holds null, and is left out of a sparse index)
SameIndexKey(d1, d2, ix) ==
    \A f \in IndexFields(ix) :
        IF f \in DOMAIN d1 /\ f \in DOMAIN d2 THEN d1[f] = d2[f]
        ELSE f \notin DOMAIN d1 /\ f \notin DOMAIN d2 /\ ~IsSparseIndex(ix)

\* a collection breaks the uniqueness of _id or of a unique index
UniqueViolation(coll, idx) ==
    \E i, j \in 1..Len(coll) :
        /\ i < j
        /\ \/ coll[i]["_id"] = coll[j]["_id"]
           \/ \E ix \in idx : IsUniqueIndex(ix) /\ SameIndexKey(coll[i], coll[j], ix)

\* an insert that does not look at the unique indexes
InsertOneUnchecked(coll, idx, next, doc, fault) ==
    LET generated == "_id" \notin DOMAIN doc
        full == IF generated THEN SetField(doc, "_id", GenOid(next + 1)) ELSE doc
        next2 == IF generated THEN next + 1 ELSE next
    IN IF fault = "io"
       THEN [err |-> {RawIO}, coll |-> coll, next |-> next, InsertedID |-> NilObjectID]
       ELSE IF FALSE
       THEN [err |-> {RawDuplicateKey}, coll |-> coll, next |-> next2, InsertedID |-> NilObjectID]
       ELSE [err |-> NoErr, coll |-> Append(coll, full), next |-> next2, InsertedID |-> full["_id"]]

\* collection.InsertOne(ctx, model): the driver gives a document without _id
\* a new ObjectID; the server refuses a duplicate key
InsertOne(coll, idx, next, doc, fault) ==
    LET generated == "_id" \notin DOMAIN doc
        full == IF generated THEN SetField(doc, "_id", GenOid(next + 1)) ELSE doc
        next2 == IF generated THEN next + 1 ELSE next
    IN IF fault = "io"
       THEN [err |-> {RawIO}, coll |-> coll, next |-> next, InsertedID |-> NilObjectID]
       ELSE IF UniqueViolation(Append(coll, full), idx)
       THEN [err |-> {RawDuplicateKey}, coll |-> coll, next |-> next2, InsertedID |-> NilObjectID]
       ELSE [err |-> NoErr, coll |-> Append(coll, full), next |-> next2, InsertedID |-> full["_id"]]

\* a skip that never goes past the last match
FindSkipStopsAtLast(coll, idx, wire, findOptions, fault) ==
    IF fault = "io" THEN [err |-> {RawIO}, batch |-> <<>>, cursor |-> "none"]
    ELSE IF BadFilter(wire, idx) THEN [err |-> {RawBadValue}, batch |-> <<>>, cursor |-> "none"]
    ELSE LET matched == MatchSeq(coll, wire, idx)
             term == wire[1].Value.elems[1].Value.v
             ordered == IF findOptions.sortByScore
                        THEN SortByScore(matched,
                                 [i \in 1..Len(matched) |->
                                    TextScore(matched[i], TheTextIndex(idx), term)])
                        ELSE matched
             skipped == Drop(ordered, Min(findOptions.skip, Max(0, Len(ordered) - 1)))
         IN [err |-> NoErr,
             batch |-> IF findOptions.limit = 0 THEN skipped
                       ELSE Take(skipped, findOptions.limit),
             cursor |-> "open"]

\* the cursor of collection.Find(ctx, filter, findOptions): the matching
\* documents, sorted when a sort is set, after skip, at most limit of them
\* (the server reads limit 0 as no limit); findOptions is
\* [skip, limit, sortByScore].  A Find that fails returns no cursor, one
\* that succeeds an open one.
Find(coll, idx, wire, findOptions, fault) ==
    IF fault = "io" THEN [err |-> {RawIO}, batch |-> <<>>, cursor |-> "none"]
    ELSE IF BadFilter(wire, idx) THEN [err |-> {RawBadValue}, batch |-> <<>>, cursor |-> "none"]
    ELSE LET matched == MatchSeq(coll, wire, idx)
             term == wire[1].Value.elems[1].Value.v
             ordered == IF findOptions.sortByScore
                        THEN SortByScore(matched,
                                 [i \in 1..Len(matched) |->
                                    TextScore(matched[i], TheTextIndex(idx), term)])
                        ELSE matched
             skipped == Drop(ordered, findOptions.skip)
         IN [err |-> NoErr,
             batch |-> IF findOptions.limit = 0 THEN skipped
                       ELSE Take(skipped, findOptions.limit),
             cursor |-> "open"]

\* options.Find()
DefaultFindOptions == [skip |-> 0, limit |-> 0, sortByScore |-> FALSE]

\* collection.FindOne(ctx, filter): the first matching document, or
\* mongo.ErrNoDocuments from Decode
FindOne(coll, idx, wire, fault) ==
    IF fault = "io" THEN [err |-> {RawIO}, doc |-> <<>>]
    ELSE IF BadFilter(wire, idx) THEN [err |-> {RawBadValue}, doc |-> <<>>]
    ELSE IF MatchSet(coll, wire, idx) = {} THEN [err |-> {RawNoDocuments}, doc |-> <<>>]
    ELSE IF fault = "decode" THEN [err |-> {RawDecode}, doc |-> <<>>]
    ELSE [err |-> NoErr, doc |-> <<Head(MatchSeq(coll, wire, idx))>>]

\* a count that fails as FindOne does when no document matches
CountDocumentsOrNoDocuments(coll, idx, wire, fault) ==
    IF fault = "io" THEN [err |-> {RawIO}, count |-> 0]
    ELSE IF BadFilter(wire, idx) THEN [err |-> {RawBadValue}, count |-> 0]
    ELSE IF MatchSet(coll, wire, idx) = {} THEN [err |-> {RawNoDocuments}, count |-> 0]
    ELSE [err |-> NoErr, count |-> Cardinality(MatchSet(coll, wire, idx))]

\* collection.CountDocuments(ctx, filter)
CountDocuments(coll, idx, wire, fault) ==
    IF fault = "io" THEN [err |-> {RawIO}, count |-> 0]
    ELSE IF BadFilter(wire, idx) THEN [err |-> {RawBadValue}, count |-> 0]
    ELSE [err |-> NoErr, count |-> Cardinality(MatchSet(coll, wire, idx))]

\* a document that is matched counted as modified whether it changes or not
SetOneCountsMatched(coll, idx, i, upd) ==
    LET new == SetFields(coll[i], upd)
        coll2 == [coll EXCEPT ![i] = new]
    IN IF "_id" \in DOMAIN upd /\ upd["_id"] # coll[i]["_id"]
       THEN [err |-> {RawImmutableField}, coll |-> coll, modified |-> 0]
       ELSE IF new = coll[i] THEN [err |-> NoErr, coll |-> coll, modified |-> 1]
       ELSE IF UniqueViolation(coll2, idx)
       THEN [err |-> {RawDuplicateKey}, coll |-> coll, modified |-> 0]
       ELSE [err |-> NoErr, coll |-> coll2, modified |-> 1]

\* one document under {$set: upd}: the changed document, or the server's error
SetOne(coll, idx, i, upd) ==
    LET new == SetFields(coll[i], upd)
        coll2 == [coll EXCEPT ![i] = new]
    IN IF "_id" \in DOMAIN upd /\ upd["_id"] # coll[i]["_id"]
       THEN [err |-> {RawImmutableField}, coll |-> coll, modified |-> 0]
       ELSE IF new = coll[i] THEN [err |-> NoErr, coll |-> coll, modified |-> 0]
       ELSE IF UniqueViolation(coll2, idx)
       THEN [err |-> {RawDuplicateKey}, coll |-> coll, modified |-> 0]
       ELSE [err |-> NoErr, coll |-> coll2, modified |-> 1]

\* mutation of UpdateByID: an upsert, the document is made when none has
\* the identifier
UpdateByIDUpsert(coll, idx, oid, upd, fault) ==
    LET hit == {i \in 1..Len(coll) : coll[i]["_id"] = oid} IN
    IF fault = "io"
    THEN [err |-> {RawIO}, coll |-> coll, MatchedCount |-> 0, ModifiedCount |-> 0]
    ELSE IF hit = {}
    THEN [err |-> NoErr, coll |-> Append(coll, SetField(upd, "_id", oid)),
          MatchedCount |-> 0, ModifiedCount |-> 0]
    ELSE LET r == SetOne(coll, idx, CHOOSE i \in hit : TRUE, upd)
         IN [err |-> r.err, coll |-> r.coll,
             MatchedCount |-> IF r.err = NoErr THEN 1 ELSE 0,
             ModifiedCount |-> r.modified]

\* collection.UpdateByID(ctx, objID, {$set: model}): no upsert
UpdateByID(coll, idx, oid, upd, fault) ==
    LET hit == {i \in 1..Len(coll) : coll[i]["_id"] = oid} IN
    IF fault = "io"
    THEN [err |-> {RawIO}, coll |-> coll, MatchedCount |-> 0, ModifiedCount |-> 0]
    ELSE IF hit = {}
    THEN [err |-> NoErr, coll |-> coll, MatchedCount |-> 0, ModifiedCount |-> 0]
    ELSE LET r == SetOne(coll, idx, CHOOSE i \in hit : TRUE, upd)
         IN [err |-> r.err, coll |-> r.coll,
             MatchedCount |-> IF r.err = NoErr THEN 1 ELSE 0,
             ModifiedCount |-> r.modified]

\* mutation of UpdateManyDocs: the first matching document only
UpdateManyDocsFirstOnly(coll, idx, wire, upd, fault) ==
    IF fault = "io" THEN [err |-> {RawIO}, coll |-> coll, ModifiedCount |-> 0]
    ELSE IF BadFilter(wire, idx) THEN [err |-> {RawBadValue}, coll |-> coll, ModifiedCount |-> 0]
    ELSE IF MatchSet(coll, wire, idx) = {} THEN [err |-> NoErr, coll |-> coll, ModifiedCount |-> 0]
    ELSE LET first == CHOOSE i \in MatchSet(coll, wire, idx) :
                          \A j \in MatchSet(coll, wire, idx) : i <= j
             r == SetOne(coll, idx, first, upd)
         IN [err |-> r.err, coll |-> r.coll, ModifiedCount |-> r.modified]

\* collection.UpdateMany(ctx, filter, {$set: update}): the matching documents
\* one after the other; a failing document ends the update, the documents
\* before it stay changed
RECURSIVE UpdateFrom(_, _, _, _, _, _)
UpdateFrom(coll, idx, wire, upd, i, modified) ==
    IF i > Len(coll) THEN [err |-> NoErr, coll |-> coll, ModifiedCount |-> modified]
    ELSE IF ~Matches(coll[i], wire, idx) THEN UpdateFrom(coll, idx, wire, upd, i + 1, modified)
    ELSE LET r == SetOne(coll, idx, i, upd)
         IN IF r.err # NoErr THEN [err |-> r.err, coll |-> coll, ModifiedCount |-> modified]
            ELSE UpdateFrom(r.coll, idx, wire, upd, i + 1, modified + r.modified)

UpdateManyDocs(coll, idx, wire, upd, fault) ==
    IF fault = "io" THEN [err |-> {RawIO}, coll |-> coll, ModifiedCount |-> 0]
    ELSE IF BadFilter(wire, idx) THEN [err |-> {RawBadValue}, coll |-> coll, ModifiedCount |-> 0]
    ELSE UpdateFrom(coll, idx, wire, upd, 1, 0)

\* collection.DeleteOne(ctx, filter): the first matching document goes
DeleteOne(coll, idx, wire, fault) ==
    LET hit == MatchSet(coll, wire, idx) IN
    IF fault = "io" THEN [err |-> {RawIO}, coll |-> coll, DeletedCount |-> 0]
    ELSE IF BadFilter(wire, idx) THEN [err |-> {RawBadValue}, coll |-> coll, DeletedCount |-> 0]
    ELSE IF hit = {} THEN [err |-> NoErr, coll |-> coll, DeletedCount |-> 0]
    ELSE LET first == CHOOSE i \in hit : \A j \in hit : i <= j
         IN [err |-> NoErr,
             coll |-> SelectIdx(coll, (1..Len(coll)) \ {first}, 1),
             DeletedCount |-> 1]

\* collection.DeleteMany(ctx, filter): every matching document goes
DeleteManyDocs(coll, idx, wire, fault) ==
    LET hit == MatchSet(coll, wire, idx) IN
    IF fault = "io" THEN [err |-> {RawIO}, coll |-> coll, DeletedCount |-> 0]
    ELSE IF BadFilter(wire, idx) THEN [err |-> {RawBadValue}, coll |-> coll, DeletedCount |-> 0]
    ELSE [err |-> NoErr,
          coll |-> SelectIdx(coll, (1..Len(coll)) \ hit, 1),
          DeletedCount |-> Cardinality(hit)]

\* the name the server gives an index that has none: field_1 or field_text
DefaultIndexName(keys) ==
    [i \in 1..(2 * Len(keys)) |->
       IF i % 2 = 1 THEN keys[(i + 1) \div 2].Key
       ELSE IF keys[i \div 2].Value = "text" THEN "_text" ELSE "_1"]

\* the orders in which a range over a Go map can visit its entries: all
Visits(entries) ==
    {[i \in 1..Len(entries) |-> entries[p[i]]] :
        p \in {f \in [1..Len(entries) -> 1..Len(entries)] :
                 \A i, j \in 1..Len(entries) : i # j => f[i] # f[j]}}

\* the one order in which the server keeps the fields of a text index
ServerOrder(entries) == CHOOSE s \in Visits(entries) : TRUE

\* the index as the server stores it: it names an index that has no name,
\* and keeps the keys and the weights of a text index in its own order
StoredIndex(model) ==
    LET text == \E i \in 1..Len(model.keys) : model.keys[i].Value = "text"
        named == IF model.opts.Name = <<>>
                 THEN [model.opts EXCEPT !.Name = <<DefaultIndexName(model.keys)>>]
                 ELSE model.opts
    IN [keys |-> IF text THEN ServerOrder(model.keys) ELSE model.keys,
        opts |-> IF text /\ named.Weights # <<>>
                 THEN [named EXCEPT !.Weights = <<ServerOrder(named.Weights[1])>>]
                 ELSE named]

\* collection.Indexes().CreateOne(ctx, indexModel): an index that exists is
\* left alone; the server refuses an index without keys, one whose name or
\* keys another index has, a second text index, and a unique index over
\* duplicates
CreateOne(coll, idx, model, fault) ==
    LET ix == StoredIndex(model) IN
    IF fault = "io" THEN [err |-> {RawIO}, idx |-> idx]
    ELSE IF model.keys = <<>> THEN [err |-> {RawCannotCreateIndex}, idx |-> idx]
    ELSE IF ix \in idx THEN [err |-> NoErr, idx |-> idx]
    ELSE IF \E o \in idx : \/ o.opts.Name = ix.opts.Name
                           \/ o.keys = ix.keys
                           \/ IsTextIndex(o) /\ IsTextIndex(ix)
    THEN [err |-> {RawIndexConflict}, idx |-> idx]
    ELSE IF UniqueViolation(coll, idx \cup {ix}) THEN [err |-> {RawDuplicateKey}, idx |-> idx]
    ELSE [err |-> NoErr, idx |-> idx \cup {ix}]

----------------------------------------------------------------------------
(* The index options (IndexOption): a fragment sets fields of the options   *)
(* record it is given.  A fragment is [opt, arg].                           *)

Unique(unique) == [opt |-> "Unique", arg |-> <<unique>>]

Sparse(sparse) == [opt |-> "Sparse", arg |-> <<sparse>>]

ExpireAfterSeconds(expireAfterSeconds) == [opt |-> "ExpireAfterSeconds", arg |-> <<expireAfterSeconds>>]

Name(name) == [opt |-> "Name", arg |-> <<name>>]

SetHidden(hidden) == [opt |-> "SetHidden", arg |-> <<hidden>>]

PartialFilterExpression(partialFilterExpression) ==
    [opt |-> "PartialFilterExpression", arg |-> <<partialFilterExpression>>]

SetCollation(collation) == [opt |-> "SetCollation", arg |-> <<collation>>]

SetWildcardProjection(wildcardProjection) ==
    [opt |-> "SetWildcardProjection", arg |-> <<wildcardProjection>>]

\* TTL(duration): the closure keeps the duration
TTL(duration) == [opt |-> "TTL", arg |-> <<duration>>]

\* a time.Duration: neg its sign, hi * 2^16 + lo the whole seconds of its
\* magnitude (lo < 2^16), ns the nanoseconds beyond them
Duration(neg, hi, lo, ns) == [neg |-> neg, hi |-> hi, lo |-> lo, ns |-> ns]

RECURSIVE Pow2(_)
Pow2(n) == IF n = 0 THEN 1 ELSE 2 * Pow2(n - 1)

\* the binary exponent of a positive integer: the e with 2^e <= n < 2^(e+1)
RECURSIVE Log2(_)
Log2(n) == IF n < 2 THEN 0 ELSE 1 + Log2(n \div 2)

\* the whole seconds are below 2^31
WholeFits(d) == d.hi < 32768

\* "sec := d / Second"
Whole(d) == d.hi * 65536 + d.lo

\* "float64(sec) + float64(nsec)/1e9": the sum is rounded to the nearest
\* float64, 53 binary digits; it is the next whole number when nsec/1e9 is
\* nearer to 1 than half the spacing of the float64 values at sec
RoundsToNext(d) ==
    /\ d.ns > 0 /\ Whole(d) > 0
    /\ LET k == 53 - Log2(Whole(d))
       IN k < 30 /\ (1000000000 - d.ns) <= (999999999 \div Pow2(k))

\* int32(duration.Seconds()): the float is cut to its integer part; of a
\* value no int32 holds the conversion's result depends on the build
\* (amd64 gives the least int32, arm64 the nearest int32)
Int32OfSeconds(d, a) ==
    LET carry == WholeFits(d) /\ RoundsToNext(d)
        top == WholeFits(d) /\ Whole(d) = 2147483647
    IN IF WholeFits(d) /\ ~(carry /\ top)
       THEN (IF d.neg THEN -1 ELSE 1) * (IF carry THEN Whole(d) + 1 ELSE Whole(d))
       ELSE IF carry /\ top /\ d.neg THEN -2147483647 - 1
       ELSE IF a = "amd64" THEN -2147483647 - 1
       ELSE IF d.neg THEN -2147483647 - 1 ELSE 2147483647

\* TextIndexConfig{Fields, DefaultLang, Name}: Fields the entries of the map,
\* Name the pieces of the string (<<>> the empty string)
TextIndexConfig(fields, defaultLang, name) ==
    [Fields |-> fields, DefaultLang |-> defaultLang, Name |-> name]

\* NewTextIndexConfig(fields), for a map that is not empty
NewTextIndexConfig(fields) == TextIndexConfig(fields, "english", <<"default", "_fts_index">>)

\* TextIndex(config): the closure keeps the config
TextIndex(config) == [opt |-> "TextIndex", arg |-> <<config>>]

\* the body of the closure of TextIndex
ApplyTextIndex(config, opts) ==
    LET weights == [i \in 1..Len(config.Fields) |->
                      E(config.Fields[i].Key, config.Fields[i].Value)]
        o1 == [opts EXCEPT !.Weights = <<weights>>]
        o2 == IF config.DefaultLang # "" THEN [o1 EXCEPT !.DefaultLanguage = <<config.DefaultLang>>]
              ELSE o1
    IN IF config.Name # <<>> THEN [o2 EXCEPT !.Name = <<config.Name>>] ELSE o2

\* "for field, weight := range config.Fields": the fragment with the
\* fields of its config in each order the range can visit them
VisitsOfOption(o) ==
    IF o.opt = "TextIndex"
    THEN {TextIndex([o.arg[1] EXCEPT !.Fields = f]) : f \in Visits(o.arg[1].Fields)}
    ELSE {o}

\* the option lists whose fragments are those of os, each visited somehow
VisitsOfOptions(os) ==
    {v \in [1..Len(os) -> UNION {VisitsOfOption(os[i]) : i \in 1..Len(os)}] :
        \A i \in 1..Len(os) : v[i] \in VisitsOfOption(os[i])}

\* opt(indexOpts)
ApplyIndexOption(o, opts) ==
    CASE o.opt = "Unique" -> [opts EXCEPT !.Unique = o.arg]
      [] o.opt = "Sparse" -> [opts EXCEPT !.Sparse = o.arg]
      [] o.opt = "ExpireAfterSeconds" -> [opts EXCEPT !.ExpireAfterSeconds = o.arg]
      [] o.opt = "TTL" -> [opts EXCEPT !.ExpireAfterSeconds = <<Int32OfSeconds(o.arg[1], arch)>>]
      [] o.opt = "Name" -> [opts EXCEPT !.Name = o.arg]
      [] o.opt = "SetHidden" -> [opts EXCEPT !.Hidden = o.arg]
      [] o.opt = "PartialFilterExpression" -> [opts EXCEPT !.PartialFilterExpression = o.arg]
      [] o.opt = "SetCollation" -> [opts EXCEPT !.Collation = o.arg]
      [] o.opt = "SetWildcardProjection" -> [opts EXCEPT !.WildcardProjection = o.arg]
      [] o.opt = "TextIndex" -> ApplyTextIndex(o.arg[1], opts)
      [] OTHER -> opts

\* the fragments applied from the last to the first
RECURSIVE ApplyIndexOptionsBackwards(_, _, _)
ApplyIndexOptionsBackwards(os, i, opts) ==
    IF i > Len(os) THEN opts
    ELSE ApplyIndexOption(os[i], ApplyIndexOptionsBackwards(os, i + 1, opts))

\* "for _, opt := range opts { opt(indexOpts) }"
RECURSIVE ApplyIndexOptions(_, _, _)
ApplyIndexOptions(os, i, opts) ==
    IF i > Len(os) THEN opts
    ELSE ApplyIndexOptions(os, i + 1, ApplyIndexOption(os[i], opts))

----------------------------------------------------------------------------
(* The inputs the callers of the model pass.                                *)

\* identifier strings: of generated and chosen ObjectIDs, in lower and in
\* upper case, and malformed ones (too short, empty, a character that is no
\* hexadecimal digit)
BadChar(s) == [i \in 1..Len(s) |-> IF i = 1 THEN "g" ELSE s[i]]

IdStrings ==
    << Hex(GenOid(1)), ToUpper(Hex(GenOid(1))), Hex(GenOid(2)), Hex(PresetOid),
       <<"0", "a">>, <<>>, BadChar(Hex(GenOid(1))) >>

IdLists ==
    << <<Hex(GenOid(1))>>,
       <<Hex(GenOid(1)), Hex(GenOid(2))>>,
       <<Hex(GenOid(2)), Hex(PresetOid), ToUpper(Hex(GenOid(1)))>>,
       <<Hex(GenOid(1)), <<"0", "a">>>>,
       <<BadChar(Hex(GenOid(1))), Hex(GenOid(1))>>,
       <<>>,
       <<Hex(GenOid(1)), Hex(GenOid(1))>>,
       <<Hex(PresetOid)>> >>

\* the predicates of the filter lists
P == Gt("age", 30)

Q == Eq("email", "x")

R == Eq("name", <<"web">>)

\* the lists of fragments passed as filters ...FilterFunc
FilterLists ==
    << <<>>,
       <<P>>,
       <<Q>>,
       <<P, Q>>,
       <<Eq("email", "z")>>,
       <<And(<<P, Q>>)>>,
       <<Or(<<P, Q>>)>>,
       <<And(<<Or(<<P, Q>>), R>>)>>,
       <<In("age", <<20, 30>>), Ne("email", "y")>> >>

\* search terms: "test", "web -test", "none"
SearchTerms ==
    << <<[w |-> "test", neg |-> FALSE]>>,
       <<[w |-> "web", neg |-> FALSE], [w |-> "test", neg |-> TRUE]>>,
       <<[w |-> "none", neg |-> FALSE]>> >>

\* the update mappings passed to UpdateMany (map[string]interface{})
UpdateMaps ==
    << [k \in {"email"} |-> "y"],
       [k \in {"age"} |-> 20] >>

\* the index options passed to CreateIndex
IndexOptionLists ==
    << <<Unique(TRUE), Sparse(TRUE)>>,
       <<Unique(TRUE)>> >>

\* the (field, weight) mappings passed to CreateFullTextIndex
WeightMaps ==
    << <<[Key |-> "name", Value |-> 10]>>,
       <<[Key |-> "name", Value |-> 2], [Key |-> "email", Value |-> 5]>> >>

----------------------------------------------------------------------------
(* The repository: mongoRepository[T] and its operations.                   *)
(* last records a call and what it returned: rid the identifier string,     *)
(* docs the entities ([]T or one T), count and found the number and the     *)
(* boolean, err the error, calls the driver calls it made, find the cursor  *)
(* Find returned, cursor the state of that cursor at the return, pre the    *)
(* collection before the call.                                              *)

Call(op) ==
    [op |-> op, id |-> <<>>, ids |-> 0, model |-> ZeroUser, fi |-> 0, upd |-> 0,
     skip |-> 0, limit |-> 0, term |-> 0, fault |-> "none",
     key |-> "", os |-> <<>>, w |-> <<>>, lang |-> "", sent |-> <<>>,
     rid |-> <<>>, docs |-> <<>>, count |-> 0, found |-> FALSE, err |-> NoErr,
     calls |-> <<>>, find |-> "none", cursor |-> "none", pre |-> collection]

\* between two calls: the caller has taken the result of the last one
Idle == [Call("idle") EXCEPT !.pre = <<>>]

\* history: the entries of created whose document is not the one written to
NotWritten(oid) == {c \in created : ObjectIDFromHex(c.id).oid # oid}

\* history: the entries of created whose document a bulk write left as it was
Untouched(coll, coll2) ==
    {c \in created :
        \E i \in 1..Len(coll), j \in 1..Len(coll2) :
            coll[i]["_id"] = ObjectIDFromHex(c.id).oid /\ coll2[j] = coll[i]}

\* "&mongoRepository[T]{collection: db.Collection(collectionName)}": the
\* collection field as the constructor sets it
NewMongoRepository == "db.Collection(collectionName)"

\* NewMongoRepository(db, collectionName): over a collection that is empty
\* and has only the index of _id
Init ==
    /\ collection = <<>>
    /\ indexes = {}
    /\ nextOid = 0
    /\ last = Idle
    /\ created = {}
    /\ arrays = <<>>
    /\ arch = "amd64"
    /\ handle = NewMongoRepository
    /\ procs = <<>>
    /\ accs = <<>>
    /\ lastApply = [op |-> "none"]

\* CreateIndex(ctx, key, opts...)
CreateIndex(key, os, fault) ==
    \E visited \in VisitsOfOptions(os) :
    LET indexOpts == ApplyIndexOptions(visited, 1, NewIndexOptions)
        indexModel == [keys |-> <<E(key, "1")>>, opts |-> indexOpts]
        r == CreateOne(collection, indexes, indexModel, fault)
    IN /\ indexes' = r.idx
       /\ last' = [Call("CreateIndex") EXCEPT
                     !.key = key, !.os = os, !.sent = <<indexModel>>,
                     !.fault = fault, !.calls = <<"CreateOne">>,
                     !.err = IF r.err # NoErr THEN Join({ErrFailedToCreateIndex}, r.err) ELSE NoErr]
       /\ UNCHANGED <<collection, nextOid, created, heapVars>>

\* what Create returns for the result r of InsertOne: (oid.Hex(), nil), or
\* the error joined with the kinds
CreateResult(r) ==
    LET ok == r.InsertedID.t = "oid" IN
    [rid |-> IF r.err = NoErr /\ ok THEN Hex(r.InsertedID) ELSE <<>>,
     err |-> IF r.err # NoErr
             THEN IF IsDuplicateKeyError(r.err)
                  THEN Join({ErrFailedToCreate, ErrDuplicate}, r.err)
                  ELSE Join({ErrFailedToCreate}, r.err)
             ELSE IF ~ok THEN Join({ErrInvalidDocumentID}, r.err)
             ELSE NoErr]

\* Create(ctx, model)
Create(model, fault) ==
    LET r == InsertOne(collection, indexes, nextOid, Encode(model), fault)
        ret == CreateResult(r)
    IN /\ Len(collection) < MaxDocs
       /\ nextOid < MaxCreates
       /\ collection' = r.coll
       /\ nextOid' = r.next
       /\ last' = [Call("Create") EXCEPT
                     !.model = model, !.fault = fault, !.calls = <<"InsertOne">>,
                     !.rid = ret.rid, !.err = ret.err]
       /\ created' = IF ret.err = NoErr
                     THEN created \cup {[id |-> ret.rid, model |-> model]}
                     ELSE created
       /\ UNCHANGED <<indexes, heapVars>>

\* mutation of ByID: the filter names the field "id"
ByIDWrongKey(objID) == <<E("id", Lit(objID))>>

\* bson.M{"_id": objID} on the wire
ByID(objID) == <<E("_id", Lit(objID))>>

\* FindByID(ctx, id)
FindByID(id, fault) ==
    LET p == ObjectIDFromHex(id)
        filter == ByID(p.oid)
        r == FindOne(collection, indexes, filter, fault)
    IN /\ last' =
            IF ~p.ok
            THEN [Call("FindByID") EXCEPT
                    !.id = id, !.fault = fault, !.docs = <<ZeroUser>>,
                    !.err = {ErrFailedToFindByID, ErrInvalidDocumentID, RawInvalidHex}]
            ELSE [Call("FindByID") EXCEPT
                    !.id = id, !.fault = fault, !.calls = <<"FindOne">>,
                    !.docs = IF r.err = NoErr THEN <<Decode(r.doc[1])>> ELSE <<ZeroUser>>,
                    !.err = IF r.err = NoErr THEN NoErr
                            ELSE IF RawNoDocuments \in r.err
                            THEN Join({ErrFailedToFindByID, ErrNotFound}, r.err)
                            ELSE Join({ErrFailedToFindByID}, r.err)]
       /\ UNCHANGED <<collection, indexes, nextOid, created, heapVars>>

\* cursor.Close(ctx)
Close(cursor) == IF cursor = "open" THEN "closed" ELSE cursor

\* the cursor closed by the one exit that returns the results, and by no other
ReadAllCloseOnSuccess(kind, batch, fault) ==
    IF fault = "decode" /\ batch # <<>>
    THEN [docs |-> <<>>, err |-> {kind, RawDecode}, cursor |-> "open"]
    ELSE IF fault = "iter"
    THEN [docs |-> <<>>, err |-> {kind, RawIO}, cursor |-> "open"]
    ELSE IF batch = <<>>
    THEN [docs |-> <<>>, err |-> {kind, ErrNotFound}, cursor |-> "open"]
    ELSE [docs |-> [i \in 1..Len(batch) |-> Decode(batch[i])], err |-> NoErr,
          cursor |-> Close("open")]

\* an empty result returned as it is, with no error
ReadAllEmptyIsNoError(kind, batch, fault) ==
    IF fault = "decode" /\ batch # <<>>
    THEN [docs |-> <<>>, err |-> {kind, RawDecode}, cursor |-> Close("open")]
    ELSE IF fault = "iter"
    THEN [docs |-> <<>>, err |-> {kind, RawIO}, cursor |-> Close("open")]
    ELSE [docs |-> [i \in 1..Len(batch) |-> Decode(batch[i])], err |-> NoErr,
          cursor |-> Close("open")]

\* "defer cursor.Close(ctx)" and
\* "for cursor.Next(ctx) { cursor.Decode(&element); results = append(...) }"
\* over the open cursor of a Find that succeeded: the entities read, or the
\* error of Decode or of cursor.Err(), or ErrNotFound for no result, and the
\* cursor as the deferred Close leaves it at each return; kind is the
\* operation's own error
ReadAll(kind, batch, fault) ==
    IF fault = "decode" /\ batch # <<>>
    THEN [docs |-> <<>>, err |-> {kind, RawDecode}, cursor |-> Close("open")]
    ELSE IF fault = "iter"
    THEN [docs |-> <<>>, err |-> {kind, RawIO}, cursor |-> Close("open")]
    ELSE IF batch = <<>>
    THEN [docs |-> <<>>, err |-> {kind, ErrNotFound}, cursor |-> Close("open")]
    ELSE [docs |-> [i \in 1..Len(batch) |-> Decode(batch[i])], err |-> NoErr,
          cursor |-> Close("open")]

\* the error of a failed Find: "errors.Is(err, mongo.ErrNoDocuments)"
FindErr(kind, err) ==
    IF RawNoDocuments \in err THEN Join({kind, ErrNotFound}, err) ELSE Join({kind}, err)

\* the first identifier of ids that is malformed, 0 if none is
FirstMalformed(ids) ==
    IF \A i \in 1..Len(ids) : ObjectIDFromHex(ids[i]).ok THEN 0
    ELSE CHOOSE i \in 1..Len(ids) :
            /\ ~ObjectIDFromHex(ids[i]).ok
            /\ \A j \in 1..(i - 1) : ObjectIDFromHex(ids[j]).ok

\* FindByIDs(ctx, ids...)
FindByIDs(n, fault) ==
    LET ids == IdLists[n]
        objIDs == [i \in 1..Len(ids) |-> ObjectIDFromHex(ids[i]).oid]
        filter == <<E("_id", [k |-> "doc", elems |-> <<E("$in", Lit(objIDs))>>])>>
        r == Find(collection, indexes, filter, DefaultFindOptions, fault)
        read == ReadAll(ErrFailedToFindByIDs, r.batch, fault)
    IN /\ last' =
            IF FirstMalformed(ids) # 0
            THEN [Call("FindByIDs") EXCEPT
                    !.ids = n, !.fault = fault,
                    !.err = {ErrFailedToFindByIDs, ErrInvalidDocumentID, RawInvalidHex}]
            ELSE IF r.err # NoErr
            THEN [Call("FindByIDs") EXCEPT
                    !.ids = n, !.fault = fault, !.calls = <<"Find">>,
                    !.err = FindErr(ErrFailedToFindByIDs, r.err)]
            ELSE [Call("FindByIDs") EXCEPT
                    !.ids = n, !.fault = fault, !.calls = <<"Find">>,
                    !.find = r.cursor,
                    !.docs = read.docs, !.err = read.err, !.cursor = read.cursor]
       /\ UNCHANGED <<collection, indexes, nextOid, created, heapVars>>

\* mutation of NotFoundIfZero: a write that reached no document is no error
NotFoundIfZeroNever(kind, n) == NoErr

\* "if result.MatchedCount == 0 { return 0, errors.Join(kind, ErrNotFound) }"
\* of Update, and the same of Delete for result.DeletedCount
NotFoundIfZero(kind, n) == IF n = 0 THEN Join({kind}, {ErrNotFound}) ELSE NoErr

\* Update(ctx, id, model)
Update(id, model, fault) ==
    LET p == ObjectIDFromHex(id)
        r == UpdateByID(collection, indexes, p.oid, Encode(model), fault)
    IN /\ collection' = IF p.ok THEN r.coll ELSE collection
       /\ last' =
            IF ~p.ok
            THEN [Call("Update") EXCEPT
                    !.id = id, !.model = model, !.fault = fault,
                    !.err = {ErrFailedToFindByID, ErrInvalidDocumentID, RawInvalidHex}]
            ELSE [Call("Update") EXCEPT
                    !.id = id, !.model = model, !.fault = fault, !.calls = <<"UpdateByID">>,
                    !.count = IF r.err = NoErr /\ r.MatchedCount # 0 THEN r.ModifiedCount ELSE 0,
                    !.err = IF r.err # NoErr THEN FindErr(ErrFailedToUpdate, r.err)
                            ELSE NotFoundIfZero(ErrFailedToUpdate, r.MatchedCount)]
       /\ created' = IF p.ok /\ r.err = NoErr THEN NotWritten(p.oid) ELSE created
       /\ UNCHANGED <<indexes, nextOid, heapVars>>

\* UpdateMany(ctx, update, filters...)
UpdateMany(u, fi, fault) ==
    LET filter == BuildFilter(FilterLists[fi])
        r == UpdateManyDocs(collection, indexes, MarshalFilter(filter), UpdateMaps[u], fault)
    IN /\ collection' = r.coll
       /\ last' = [Call("UpdateMany") EXCEPT
                     !.upd = u, !.fi = fi, !.fault = fault, !.calls = <<"UpdateMany">>,
                     !.count = IF r.err = NoErr THEN r.ModifiedCount ELSE 0,
                     !.err = IF r.err # NoErr THEN FindErr(ErrFailedToUpdateMany, r.err)
                             ELSE NoErr]
       /\ created' = Untouched(collection, r.coll)
       /\ UNCHANGED <<indexes, nextOid, heapVars>>

\* Delete(ctx, id)
Delete(id, fault) ==
    LET p == ObjectIDFromHex(id)
        r == DeleteOne(collection, indexes, ByID(p.oid), fault)
    IN /\ collection' = IF p.ok THEN r.coll ELSE collection
       /\ last' =
            IF ~p.ok
            THEN [Call("Delete") EXCEPT
                    !.id = id, !.fault = fault,
                    !.err = {ErrFailedToFindByID, ErrInvalidDocumentID, RawInvalidHex}]
            ELSE [Call("Delete") EXCEPT
                    !.id = id, !.fault = fault, !.calls = <<"DeleteOne">>,
                    !.count = IF r.err = NoErr THEN r.DeletedCount ELSE 0,
                    !.err = IF r.err # NoErr THEN FindErr(ErrFailedToDelete, r.err)
                            ELSE NotFoundIfZero(ErrFailedToDelete, r.DeletedCount)]
       /\ created' = IF p.ok /\ r.err = NoErr THEN NotWritten(p.oid) ELSE created
       /\ UNCHANGED <<indexes, nextOid, heapVars>>

\* DeleteMany(ctx, filters...)
DeleteMany(fi, fault) ==
    LET filter == BuildFilter(FilterLists[fi])
        r == DeleteManyDocs(collection, indexes, MarshalFilter(filter), fault)
    IN /\ collection' = r.coll
       /\ last' = [Call("DeleteMany") EXCEPT
                     !.fi = fi, !.fault = fault, !.calls = <<"DeleteMany">>,
                     !.count = IF r.err = NoErr THEN r.DeletedCount ELSE 0,
                     !.err = IF r.err # NoErr THEN FindErr(ErrFailedToDeleteMany, r.err)
                             ELSE NoErr]
       /\ created' = Untouched(collection, r.coll)
       /\ UNCHANGED <<indexes, nextOid, heapVars>>

\* mutation of EffectiveLimit: the limit is passed on as it is
EffectiveLimitAsGiven(limit) == limit

\* "if limit == 0 { limit = 10 }"
EffectiveLimit(limit) == IF limit = 0 THEN DefaultLimit ELSE limit

\* options.Find().SetSkip(skip).SetLimit(limit)
FindManyOptions(skip, limit) ==
    [skip |-> skip, limit |-> EffectiveLimit(limit), sortByScore |-> FALSE]

\* mutation of SearchOptions: no sort is set
SearchOptionsUnsorted(skip, limit) ==
    [skip |-> skip, limit |-> EffectiveLimit(limit), sortByScore |-> FALSE]

\* options.Find().SetSkip(skip).SetLimit(limit).SetProjection(score)
\*     .SetSort(bson.D{{"score", {"$meta": "textScore"}}})
SearchOptions(skip, limit) ==
    [skip |-> skip, limit |-> EffectiveLimit(limit), sortByScore |-> TRUE]

\* FindManyByFilter(ctx, skip, limit, filters...)
FindManyByFilter(skip, limit, fi, fault) ==
    LET filter == BuildFilter(FilterLists[fi])
        r == Find(collection, indexes, MarshalFilter(filter), FindManyOptions(skip, limit),
                  fault)
        read == ReadAll(ErrFailedToFindManyByFilter, r.batch, fault)
    IN /\ last' =
            IF r.err # NoErr
            THEN [Call("FindManyByFilter") EXCEPT
                    !.skip = skip, !.limit = limit, !.fi = fi, !.fault = fault,
                    !.calls = <<"Find">>,
                    !.err = FindErr(ErrFailedToFindManyByFilter, r.err)]
            ELSE [Call("FindManyByFilter") EXCEPT
                    !.skip = skip, !.limit = limit, !.fi = fi, !.fault = fault,
                    !.calls = <<"Find">>,
                    !.find = r.cursor,
                    !.docs = read.docs, !.err = read.err, !.cursor = read.cursor]
       /\ UNCHANGED <<collection, indexes, nextOid, created, heapVars>>

\* FindOneByFilter(ctx, filters...)
FindOneByFilter(fi, fault) ==
    LET filter == BuildFilter(FilterLists[fi])
        r == FindOne(collection, indexes, MarshalFilter(filter), fault)
    IN /\ last' = [Call("FindOneByFilter") EXCEPT
                     !.fi = fi, !.fault = fault, !.calls = <<"FindOne">>,
                     !.docs = IF r.err = NoErr THEN <<Decode(r.doc[1])>> ELSE <<ZeroUser>>,
                     !.err = IF r.err = NoErr THEN NoErr
                             ELSE FindErr(ErrFailedToFindOneByFilter, r.err)]
       /\ UNCHANGED <<collection, indexes, nextOid, created, heapVars>>

\* Exists(ctx, filters...) of the repository
RepoExists(fi, fault) ==
    LET filter == BuildFilter(FilterLists[fi])
        r == CountDocuments(collection, indexes, MarshalFilter(filter), fault)
    IN /\ last' = [Call("Exists") EXCEPT
                     !.fi = fi, !.fault = fault, !.calls = <<"CountDocuments">>,
                     !.found = (r.err = NoErr /\ r.count > 0),
                     !.err = IF r.err = NoErr THEN NoErr
                             ELSE Join({ErrFailedToFindOneByFilter}, r.err)]
       /\ UNCHANGED <<collection, indexes, nextOid, created, heapVars>>

\* Count(ctx, filters...)
Count(fi, fault) ==
    LET filter == BuildFilter(FilterLists[fi])
        r == CountDocuments(collection, indexes, MarshalFilter(filter), fault)
    IN /\ last' = [Call("Count") EXCEPT
                     !.fi = fi, !.fault = fault, !.calls = <<"CountDocuments">>,
                     !.count = IF r.err = NoErr THEN r.count ELSE 0,
                     !.err = IF r.err = NoErr THEN NoErr
                             ELSE Join({ErrFailedToFindOneByFilter}, r.err)]
       /\ UNCHANGED <<collection, indexes, nextOid, created, heapVars>>

\* the index named after the language as it was given
CreateFullTextIndexOfGivenLang(fieldWeights, lang, fault) ==
    \E keys \in Visits(fieldWeights) :
    LET idxKeys == [i \in 1..Len(keys) |-> E(keys[i].Key, "text")]
        weights == [i \in 1..Len(keys) |-> E(keys[i].Key, keys[i].Value)]
        lang2 == IF lang = "" THEN "english" ELSE lang
        idxOpt == [NewIndexOptions EXCEPT
                     !.Weights = <<weights>>, !.DefaultLanguage = <<lang2>>,
                     !.Name = <<<<lang, "_fts_index">>>>, !.Sparse = <<TRUE>>]
        r == CreateOne(collection, indexes, [keys |-> idxKeys, opts |-> idxOpt], fault)
    IN /\ indexes' = r.idx
       /\ last' = [Call("CreateFullTextIndex") EXCEPT
                     !.w = fieldWeights, !.lang = lang,
                     !.sent = <<[keys |-> idxKeys, opts |-> idxOpt]>>,
                     !.fault = fault, !.calls = <<"CreateOne">>,
                     !.err = IF r.err # NoErr THEN Join({ErrFailedToCreateIndex}, r.err) ELSE NoErr]
       /\ UNCHANGED <<collection, nextOid, created, heapVars>>

\* CreateFullTextIndex(ctx, keys, lang); keys in the order the range visits it
CreateFullTextIndexOf(fieldWeights, lang, fault) ==
    \E keys \in Visits(fieldWeights) :
    LET idxKeys == [i \in 1..Len(keys) |-> E(keys[i].Key, "text")]
        weights == [i \in 1..Len(keys) |-> E(keys[i].Key, keys[i].Value)]
        lang2 == IF lang = "" THEN "english" ELSE lang
        idxOpt == [NewIndexOptions EXCEPT
                     !.Weights = <<weights>>, !.DefaultLanguage = <<lang2>>,
                     !.Name = <<<<lang2, "_fts_index">>>>, !.Sparse = <<TRUE>>]
        r == CreateOne(collection, indexes, [keys |-> idxKeys, opts |-> idxOpt], fault)
    IN /\ indexes' = r.idx
       /\ last' = [Call("CreateFullTextIndex") EXCEPT
                     !.w = fieldWeights, !.lang = lang,
                     !.sent = <<[keys |-> idxKeys, opts |-> idxOpt]>>,
                     !.fault = fault, !.calls = <<"CreateOne">>,
                     !.err = IF r.err # NoErr THEN Join({ErrFailedToCreateIndex}, r.err) ELSE NoErr]
       /\ UNCHANGED <<collection, nextOid, created, heapVars>>

\* CreateFullTextIndex with the w-th of WeightMaps
CreateFullTextIndex(w, lang, fault) == CreateFullTextIndexOf(WeightMaps[w], lang, fault)

\* Search(ctx, skip, limit, searchTerm)
Search(skip, limit, t, fault) ==
    LET filter == [k |-> "M", m |-> <<[op |-> "$text", val |-> M1("$search", SearchTerms[t])]>>]
        r == Find(collection, indexes, MarshalValue(filter).elems, SearchOptions(skip, limit),
                  fault)
        read == ReadAll(ErrFailedToFindManyByFilter, r.batch, fault)
    IN /\ last' =
            IF r.err # NoErr
            THEN [Call("Search") EXCEPT
                    !.skip = skip, !.limit = limit, !.term = t, !.fault = fault,
                    !.calls = <<"Find">>,
                    !.err = FindErr(ErrFailedToFindManyByFilter, r.err)]
            ELSE [Call("Search") EXCEPT
                    !.skip = skip, !.limit = limit, !.term = t, !.fault = fault,
                    !.calls = <<"Find">>,
                    !.find = r.cursor,
                    !.docs = read.docs, !.err = read.err, !.cursor = read.cursor]
       /\ UNCHANGED <<collection, indexes, nextOid, created, heapVars>>

----------------------------------------------------------------------------
(* The filter fragments on the Go heap.  A bson.D is a slice: a header      *)
(* [arr, len] over a backing array (arr = 0: no array, capacity 0); the     *)
(* array's length is the slice's capacity.  append writes into the backing  *)
(* array when the capacity allows it and into a new, larger array when it   *)
(* does not.  An accumulator of accs also records how it came about: frag   *)
(* the fragment that returned it (0: the caller made it), from the          *)
(* accumulator the fragment was given.                                      *)

\* the fragments applied on the heap
HeapFrags ==
    << Eq("email", "x"),
       Regex("email", "x", "i"),
       And(<<Gt("age", 30), Eq("email", "x")>>) >>

\* the capacities of the accumulators a caller makes: bson.D{} and
\* make(bson.D, 0, 2)
MadeCaps == {0, 2}

ZeroE == E("", Lit(0))

Cap(arrs, s) == IF s.arr = 0 THEN 0 ELSE Len(arrs[s.arr])

\* the clauses visible through a slice
Visible(arrs, s) == IF s.arr = 0 THEN <<>> ELSE SubSeq(arrs[s.arr], 1, s.len)

\* the capacity append grows a full slice of bson.E to
GrowCap(cap) == IF cap = 0 THEN 1 ELSE 2 * cap

\* mutation of GoAppend: one buffer for all - a slice that has to grow is
\* written over the first backing array there is
GoAppendOneBuffer(arrs, s, e) ==
    IF s.len < Cap(arrs, s)
    THEN [arrays |-> [arrs EXCEPT ![s.arr][s.len + 1] = e],
          slice |-> [arr |-> s.arr, len |-> s.len + 1]]
    ELSE LET old == Visible(arrs, s)
             size == IF arrs = <<>> THEN GrowCap(Cap(arrs, s))
                     ELSE Max(Len(arrs[1]), s.len + 1)
             fresh == [i \in 1..size |->
                         IF i <= s.len THEN old[i] ELSE IF i = s.len + 1 THEN e ELSE ZeroE]
         IN IF arrs = <<>>
            THEN [arrays |-> <<fresh>>, slice |-> [arr |-> 1, len |-> s.len + 1]]
            ELSE [arrays |-> [arrs EXCEPT ![1] = fresh], slice |-> [arr |-> 1, len |-> s.len + 1]]

\* append(filter, e)
GoAppend(arrs, s, e) ==
    IF s.len < Cap(arrs, s)
    THEN [arrays |-> [arrs EXCEPT ![s.arr][s.len + 1] = e],
          slice |-> [arr |-> s.arr, len |-> s.len + 1]]
    ELSE LET old == Visible(arrs, s)
             fresh == [i \in 1..GrowCap(Cap(arrs, s)) |->
                         IF i <= s.len THEN old[i] ELSE IF i = s.len + 1 THEN e ELSE ZeroE]
         IN [arrays |-> Append(arrs, fresh),
             slice |-> [arr |-> Len(arrs) + 1, len |-> s.len + 1]]

\* f(filter) on the heap: the closure appends its clauses to the slice
RECURSIVE AppendAll(_, _, _, _)
AppendAll(arrs, s, es, i) ==
    IF i > Len(es) THEN [arrays |-> arrs, slice |-> s]
    ELSE LET r == GoAppend(arrs, s, es[i]) IN AppendAll(r.arrays, r.slice, es, i + 1)

CallFilterFunc(arrs, f, s) == AppendAll(arrs, s, Clauses(f), 1)

\* what every accumulator shows
Snapshot == [j \in 1..Len(accs) |-> Visible(arrays, accs[j])]

\* a caller makes an accumulator: bson.D{} or make(bson.D, 0, cap)
NewAcc(cap) ==
    /\ Len(accs) < MaxAccs
    /\ arrays' = IF cap = 0 THEN arrays ELSE Append(arrays, [i \in 1..cap |-> ZeroE])
    /\ accs' = Append(accs, [arr |-> IF cap = 0 THEN 0 ELSE Len(arrays) + 1, len |-> 0,
                             frag |-> 0, from |-> 0])
    /\ lastApply' = [op |-> "make"]
    /\ UNCHANGED storeVars

\* a caller keeps what a fragment returns for one of its accumulators:
\* g := f(a)
ApplyFragment(n, i) ==
    LET r == CallFilterFunc(arrays, HeapFrags[n], accs[i]) IN
    /\ Len(accs) < MaxAccs
    /\ arrays' = r.arrays
    /\ accs' = Append(accs, [arr |-> r.slice.arr, len |-> r.slice.len, frag |-> n, from |-> i])
    /\ lastApply' = [op |-> "apply", frag |-> n, in |-> i, out |-> Len(accs) + 1,
                     pre |-> Snapshot]
    /\ UNCHANGED storeVars

----------------------------------------------------------------------------
(* The specifications.  The repository's calls are made one after the other *)
(* (Ready: the caller has taken the last result); the driver may fail any   *)
(* call ("io"), a cursor may fail to decode or to iterate.                  *)

Faults == {"none", "io"}

ReadFaults == {"none", "io", "decode"}

CursorFaults == {"none", "io", "decode", "iter"}

Ready == last.op = "idle"

\* the caller takes the result of the last call
Return ==
    /\ last.op # "idle"
    /\ last' = Idle
    /\ UNCHANGED <<collection, indexes, nextOid, created, heapVars>>

\* the entities passed to Create and Update
Models(ids) == {[UserValues[v] EXCEPT !.ID = id] : v \in 1..Len(UserValues), id \in ids}

\* Spec: the operations by identifier over a collection that starts empty
Next ==
    \/ Return
    \/ Ready /\ \E o \in 1..Len(IndexOptionLists), fault \in Faults :
          CreateIndex("email", IndexOptionLists[o], fault)
    \/ Ready /\ \E model \in Models({NilObjectID, PresetOid, IntId}), fault \in Faults :
          Create(model, fault)
    \/ Ready /\ \E n \in 1..Len(IdStrings), fault \in ReadFaults : FindByID(IdStrings[n], fault)
    \/ Ready /\ \E n \in 1..Len(IdLists), fault \in CursorFaults : FindByIDs(n, fault)
    \/ Ready /\ \E n \in 1..Len(IdStrings), model \in Models({NilObjectID, PresetOid}),
                   fault \in Faults :
          Update(IdStrings[n], model, fault)
    \/ Ready /\ \E n \in 1..Len(IdStrings), fault \in Faults : Delete(IdStrings[n], fault)

Spec == Init /\ [][Next]_vars

\* a collection that exists when the repository is made: documents with the
\* values vs[1], vs[2], ... of UserValues, inserted in this order
PopulationOf(vs) ==
    [i \in 1..Len(vs) |-> SetField(Encode(UserValues[vs[i]]), "_id", GenOid(i))]

QueryPopulations ==
    {PopulationOf(vs) : vs \in UNION {[1..n -> 1..Len(UserValues)] : n \in 0..MaxQueryDocs}}

\* the collection of n documents whose values go round UserValues
PagePopulation(n) == PopulationOf([i \in 1..n |-> ((i - 1) % Len(UserValues)) + 1])

\* the text index CreateFullTextIndex({"name": 10}, "english") leaves
NameTextIndex ==
    [keys |-> <<E("name", "text")>>,
     opts |-> [NewIndexOptions EXCEPT
                 !.Weights = <<<<E("name", 10)>>>>, !.DefaultLanguage = <<"english">>,
                 !.Name = <<<<"english", "_fts_index">>>>, !.Sparse = <<TRUE>>]]

\* NewMongoRepository over a collection that holds documents already
InitQuery ==
    /\ collection \in QueryPopulations
    /\ indexes = {}
    /\ nextOid = Len(collection)
    /\ last = Idle
    /\ created = {}
    /\ arrays = <<>>
    /\ arch = "amd64"
    /\ handle = NewMongoRepository
    /\ procs = <<>>
    /\ accs = <<>>
    /\ lastApply = [op |-> "none"]

\* SpecQuery: the operations by filter, and the operations by identifier
\* they are compared with, over the collections of QueryPopulations
NextQuery ==
    \/ Return
    \/ Ready /\ \E w \in 1..Len(WeightMaps), lang \in {"", "english"}, fault \in Faults :
          CreateFullTextIndex(w, lang, fault)
    \/ Ready /\ \E u \in 1..Len(UpdateMaps), fi \in 1..Len(FilterLists), fault \in Faults :
          UpdateMany(u, fi, fault)
    \/ Ready /\ \E fi \in 1..Len(FilterLists), fault \in Faults : DeleteMany(fi, fault)
    \/ Ready /\ \E skip \in 0..1, limit \in 0..1, fi \in 1..Len(FilterLists),
                   fault \in CursorFaults :
          FindManyByFilter(skip, limit, fi, fault)
    \/ Ready /\ \E n \in 1..Len(IdLists), fault \in CursorFaults : FindByIDs(n, fault)
    \/ Ready /\ \E fi \in 1..Len(FilterLists), fault \in ReadFaults : FindOneByFilter(fi, fault)
    \/ Ready /\ \E fi \in 1..Len(FilterLists), fault \in Faults : RepoExists(fi, fault)
    \/ Ready /\ \E fi \in 1..Len(FilterLists), fault \in Faults : Count(fi, fault)
    \/ Ready /\ \E skip \in 0..1, limit \in 0..1, t \in 1..Len(SearchTerms),
                   fault \in CursorFaults :
          Search(skip, limit, t, fault)
    \/ Ready /\ \E n \in {1, 4, 5}, model \in Models({NilObjectID}), fault \in Faults :
          Update(IdStrings[n], model, fault)
    \/ Ready /\ \E n \in {1, 4, 5}, fault \in Faults : Delete(IdStrings[n], fault)

SpecQuery == InitQuery /\ [][NextQuery]_vars

\* NewMongoRepository over a collection of up to MaxPopulation documents,
\* with or without a text index
InitPage ==
    /\ collection \in {PagePopulation(n) : n \in 0..MaxPopulation}
    /\ indexes \in {{}, {NameTextIndex}}
    /\ nextOid = Len(collection)
    /\ last = Idle
    /\ created = {}
    /\ arrays = <<>>
    /\ arch = "amd64"
    /\ handle = NewMongoRepository
    /\ procs = <<>>
    /\ accs = <<>>
    /\ lastApply = [op |-> "none"]

\* SpecPage: the paged reads over the collections of InitPage
NextPage ==
    \/ Return
    \/ Ready /\ \E skip \in 0..2, limit \in {0, 1, 3, 10, 12}, fi \in 1..Len(FilterLists),
                   fault \in CursorFaults :
          FindManyByFilter(skip, limit, fi, fault)
    \/ Ready /\ \E skip \in 0..2, limit \in {0, 1, 3, 10, 12}, t \in 1..Len(SearchTerms),
                   fault \in CursorFaults :
          Search(skip, limit, t, fault)

SpecPage == InitPage /\ [][NextPage]_vars

\* SpecFilter: a caller of the filter fragments makes accumulators and
\* applies fragments to them
NextFilter ==
    \/ \E cap \in MadeCaps : NewAcc(cap)
    \/ \E n \in 1..Len(HeapFrags), i \in 1..Len(accs) : ApplyFragment(n, i)

SpecFilter == Init /\ [][NextFilter]_vars

\* SpecCombine: And and Or over lists of children, applied to accumulators
\* that are empty or hold a clause already

\* accumulators a caller holds before it applies a combinator
MaxOuter == 2

\* the children of the combinators: one of each kind of fragment, and
\* combinators of no, one and two children, one of them nested
Children ==
    { P, Q, Regex("email", "x", "i"), TextSearch("web"), Exists("bio", TRUE),
      In("age", <<20, 30>>),
      And(<<>>), Or(<<>>), Or(<<R>>), And(<<P, Q>>), Or(<<And(<<P, Q>>), R>>) }

\* the lists of children: of none, one and two, and some of three
ChildLists ==
    {<<>>} \cup {<<a>> : a \in Children} \cup {<<a, b>> : a, b \in Children}
        \cup {<<P, Or(<<P, Q>>), R>>, <<And(<<>>), Q, P>>, <<Q, Q, Q>>}

Combinators == {And(c) : c \in ChildLists} \cup {Or(c) : c \in ChildLists}

\* a caller keeps what a combinator returns for one of its accumulators
ApplyCombinator(f, i) ==
    LET r == CallFilterFunc(arrays, f, accs[i]) IN
    /\ lastApply.op # "combine"
    /\ arrays' = r.arrays
    /\ accs' = Append(accs, [arr |-> r.slice.arr, len |-> r.slice.len, frag |-> 0, from |-> i])
    /\ lastApply' = [op |-> "combine", f |-> f, in |-> i, out |-> Len(accs) + 1,
                     pre |-> Snapshot]
    /\ UNCHANGED storeVars

NextCombine ==
    \/ Len(accs) < MaxOuter /\ lastApply.op # "combine" /\ \E cap \in MadeCaps : NewAcc(cap)
    \/ Len(accs) < MaxOuter /\ lastApply.op # "combine"
          /\ \E n \in 1..Len(HeapFrags), i \in 1..Len(accs) : ApplyFragment(n, i)
    \/ \E f \in Combinators, i \in 1..Len(accs) : ApplyCombinator(f, i)

SpecCombine == Init /\ [][NextCombine]_vars

\* the entity values with and without a Bio
BioUsers == {WithBio(UserValues[v], bio) : v \in 1..Len(UserValues), bio \in {"", "b"}}

\* the collections of up to MaxQueryDocs documents made of them
BioPopulations ==
    {[i \in 1..Len(us) |-> SetField(Encode(us[i]), "_id", GenOid(i))] :
        us \in UNION {[1..n -> BioUsers] : n \in 0..MaxQueryDocs}}

\* NewMongoRepository over a collection of BioPopulations
InitUpdate ==
    /\ collection \in BioPopulations
    /\ indexes = {}
    /\ nextOid = Len(collection)
    /\ last = Idle
    /\ created = {}
    /\ arrays = <<>>
    /\ arch = "amd64"
    /\ handle = NewMongoRepository
    /\ procs = <<>>
    /\ accs = <<>>
    /\ lastApply = [op |-> "none"]

\* SpecUpdate: Update with entities whose omitempty field is set or empty,
\* and the reads that show what it stored
NextUpdate ==
    \/ Return
    \/ Ready /\ \E o \in 1..Len(IndexOptionLists), fault \in Faults :
          CreateIndex("email", IndexOptionLists[o], fault)
    \/ Ready /\ \E n \in {1, 3, 4, 5}, model \in BioUsers, fault \in Faults :
          Update(IdStrings[n], model, fault)
    \/ Ready /\ \E n \in {1, 3, 4}, fault \in ReadFaults : FindByID(IdStrings[n], fault)

SpecUpdate == InitUpdate /\ [][NextUpdate]_vars

----------------------------------------------------------------------------------------------------------------------------------------
(* SpecIndex: the creation of indexes, under each option fragment, each     *)
(* pair of fragments and some longer lists.  SpecTTL: the expiry options,   *)
(* for both builds.  SpecText: the creation of text indexes.                *)

\* the durations passed to TTL: none, a second and a half, a minute, ninety
\* seconds and a half before, 2^24 seconds and a nanosecond less than one
\* more, 2^31 - 1 seconds, that and a nanosecond less than one more (both
\* signs), 2^31 seconds, and the longest duration (2^63 - 1 nanoseconds)
Durations ==
    { Duration(FALSE, 0, 0, 0),
      Duration(FALSE, 0, 1, 500000000),
      Duration(FALSE, 0, 60, 0),
      Duration(TRUE, 0, 90, 500000000),
      Duration(FALSE, 256, 0, 999999999),
      Duration(FALSE, 32767, 65535, 0),
      Duration(FALSE, 32767, 65535, 999999999),
      Duration(TRUE, 32767, 65535, 999999999),
      Duration(FALSE, 32768, 0, 0),
      Duration(FALSE, 140737, 32004, 854775807) }

\* the field weights of the text index configurations
ConfigFields == <<[Key |-> "name", Value |-> 10], [Key |-> "bio", Value |-> 5]>>

\* the fragments passed to CreateIndex
Fragments ==
    { Unique(TRUE), Sparse(TRUE), ExpireAfterSeconds(3600),
      TTL(Duration(FALSE, 0, 60, 0)), Name(<<"by_name">>), SetHidden(TRUE),
      PartialFilterExpression([k \in {"age"} |-> 20]), SetCollation("en"),
      SetWildcardProjection([k \in {"name"} |-> 1]),
      TextIndex(NewTextIndexConfig(ConfigFields)),
      TextIndex(TextIndexConfig(ConfigFields, "", <<>>)) }

\* the option lists passed to CreateIndex
OptionLists ==
    {<<>>} \cup {<<a>> : a \in Fragments} \cup {<<a, b>> : a, b \in Fragments}
        \cup { <<Unique(TRUE), TextIndex(NewTextIndexConfig(ConfigFields)), Name(<<"by_name">>)>>,
               <<Name(<<"by_name">>), Unique(TRUE), TextIndex(NewTextIndexConfig(ConfigFields))>>,
               <<ExpireAfterSeconds(3600), Sparse(TRUE), TTL(Duration(FALSE, 0, 60, 0))>>,
               <<TTL(Duration(FALSE, 0, 60, 0)), ExpireAfterSeconds(3600), Sparse(TRUE)>> }

\* the mappings passed to CreateFullTextIndex here: of no field, one, two
\* and three fields
IndexWeightMaps ==
    { <<>>,
      <<[Key |-> "name", Value |-> 10]>>,
      <<[Key |-> "name", Value |-> 2], [Key |-> "email", Value |-> 5]>>,
      <<[Key |-> "name", Value |-> 10], [Key |-> "bio", Value |-> 5],
        [Key |-> "tags", Value |-> 1]>> }

\* the expiry options passed to CreateIndex
ExpiryLists ==
    {<<TTL(d)>> : d \in Durations}
        \cup {<<ExpireAfterSeconds(n)>> : n \in {0, 1, 60, -90, 16777216, 2147483647}}

\* NewMongoRepository over an empty collection
InitIndex ==
    /\ collection = <<>>
    /\ indexes = {}
    /\ nextOid = 0
    /\ last = Idle
    /\ created = {}
    /\ arrays = <<>>
    /\ arch = "amd64"
    /\ handle = NewMongoRepository
    /\ procs = <<>>
    /\ accs = <<>>
    /\ lastApply = [op |-> "none"]

NextIndex ==
    \/ Return
    \/ Ready /\ \E os \in OptionLists, fault \in Faults : CreateIndex("name", os, fault)

SpecIndex == InitIndex /\ [][NextIndex]_vars

\* NewMongoRepository over an empty collection, built for either machine
InitTTL ==
    /\ collection = <<>>
    /\ indexes = {}
    /\ nextOid = 0
    /\ last = Idle
    /\ created = {}
    /\ arrays = <<>>
    /\ arch \in {"amd64", "arm64"}
    /\ handle = NewMongoRepository
    /\ procs = <<>>
    /\ accs = <<>>
    /\ lastApply = [op |-> "none"]

NextTTL ==
    \/ Return
    \/ Ready /\ \E os \in ExpiryLists, fault \in Faults : CreateIndex("name", os, fault)

SpecTTL == InitTTL /\ [][NextTTL]_vars

NextText ==
    \/ Return
    \/ Ready /\ \E w \in IndexWeightMaps, lang \in {"", "english", "french"}, fault \in Faults :
          CreateFullTextIndexOf(w, lang, fault)

SpecText == InitIndex /\ [][NextText]_vars

----------------------------------------------------------------------------
(* SpecConcurrent: goroutines that call Create on one repository at the     *)
(* same time.  A call is three steps: the goroutine sends the document, the *)
(* server runs the insert, in one step of its own, and the goroutine gets   *)
(* the reply and returns.  The steps of different goroutines interleave in  *)
(* every way.                                                               *)

MaxGoroutines == 3

\* the entities the goroutines create: two with the email "x", one with "y"
ConcurrentModels == {UserValues[v] : v \in 1..Len(UserValues)}

\* the index CreateIndex(ctx, "email", Unique(true)) has left at the server
UniqueEmailIndex ==
    StoredIndex([keys |-> <<E("email", "1")>>,
                 opts |-> ApplyIndexOptions(<<Unique(TRUE)>>, 1, NewIndexOptions)])

\* a goroutine that has not called yet
NotCalled == [pc |-> "go", model |-> ZeroUser, fault |-> "none", reply |-> <<>>,
              rid |-> <<>>, err |-> NoErr]

\* NewMongoRepository over an empty collection with a unique index on email
InitConcurrent ==
    /\ collection = <<>>
    /\ indexes = {UniqueEmailIndex}
    /\ nextOid = 0
    /\ last = Idle
    /\ created = {}
    /\ arrays = <<>>
    /\ arch = "amd64"
    /\ handle = NewMongoRepository
    /\ procs = [g \in 1..MaxGoroutines |-> NotCalled]
    /\ accs = <<>>
    /\ lastApply = [op |-> "none"]

\* "go repo.Create(ctx, model)": the goroutine reads the collection field and
\* sends the insert
CallCreate(g, model, fault) ==
    /\ procs[g].pc = "go"
    /\ procs' = [procs EXCEPT ![g] = [NotCalled EXCEPT
                                        !.pc = "InsertOne", !.model = model, !.fault = fault]]
    /\ UNCHANGED <<collection, indexes, nextOid, last, created, arrays, accs, lastApply,
                   arch, handle>>

\* the server runs the insert of goroutine g: one document at a time, the
\* unique index checked and the document stored in the same step
ServeInsertOne(g) ==
    /\ procs[g].pc = "InsertOne"
    /\ LET r == InsertOne(collection, indexes, nextOid, Encode(procs[g].model), procs[g].fault)
       IN /\ collection' = r.coll
          /\ nextOid' = r.next
          /\ procs' = [procs EXCEPT ![g].pc = "reply", ![g].reply = <<r>>]
    /\ UNCHANGED <<indexes, last, created, arrays, accs, lastApply, arch, handle>>

\* the goroutine gets the reply and Create returns
ReturnCreate(g) ==
    /\ procs[g].pc = "reply"
    /\ LET ret == CreateResult(procs[g].reply[1])
       IN procs' = [procs EXCEPT ![g].pc = "done", ![g].rid = ret.rid, ![g].err = ret.err,
                                 ![g].reply = <<>>]
    /\ UNCHANGED <<collection, indexes, nextOid, last, created, arrays, accs, lastApply,
                   arch, handle>>

NextConcurrent ==
    \/ \E g \in 1..MaxGoroutines, model \in ConcurrentModels, fault \in Faults :
          CallCreate(g, model, fault)
    \/ \E g \in 1..MaxGoroutines : ServeInsertOne(g)
    \/ \E g \in 1..MaxGoroutines : ReturnCreate(g)

SpecConcurrent == InitConcurrent /\ [][NextConcurrent]_vars

----------------
(* The claims.                                                              *)

\* the fields of an entity other than its identifier
NonID(e) == [Name |-> e.Name, Email |-> e.Email, Bio |-> e.Bio, Age |-> e.Age]

\* C1: round trip.  When Create(e) has succeeded and returned id, and no
\* write has gone to that document since, FindByID(id) succeeds (the driver
\* not failing) and yields an entity equal to e on every field but the
\* identifier.
C1_RoundTrip ==
    \A c \in created :
        (last.op = "FindByID" /\ last.id = c.id /\ last.fault = "none") =>
            /\ last.err = NoErr
            /\ NonID(last.docs[1]) = NonID(c.model)

\* C1's case: FindByID was called with the identifier a Create returned
C1_Witness ==
    \E c \in created :
        /\ last.op = "FindByID" /\ last.id = c.id /\ last.fault = "none"
        /\ last.docs[1].Name = <<"web", "test", "test">>

\* a unique index on a field
HasUniqueIndex(idx, field) == \E ix \in idx : IsUniqueIndex(ix) /\ IndexFields(ix) = {field}

\* the documents of a collection whose field has a value
WithValue(coll, field, v) == {i \in 1..Len(coll) : field \in DOMAIN coll[i] /\ coll[i][field] = v}

\* C2: duplicate enforcement.  Under a unique index on email, a Create whose
\* entity has the email of a stored document fails with ErrDuplicate, and a
\* Create (of an entity that leaves its identifier to the store) whose email
\* no stored document has succeeds; either way the collection then holds
\* exactly one document with that email.
C2_DuplicateEnforced ==
    (last.op = "Create" /\ last.fault = "none" /\ HasUniqueIndex(indexes, "email")) =>
        /\ WithValue(last.pre, "email", last.model.Email) # {} =>
              ErrDuplicate \in last.err /\ collection = last.pre
        /\ (WithValue(last.pre, "email", last.model.Email) = {} /\ last.model.ID = NilObjectID) =>
              last.err = NoErr /\ last.rid # <<>>
        /\ (last.model.ID = NilObjectID \/ WithValue(last.pre, "email", last.model.Email) # {}) =>
              Cardinality(WithValue(collection, "email", last.model.Email)) = 1

\* C2's case: the second Create with an email, refused as a duplicate
C2_Witness ==
    /\ last.op = "Create" /\ last.fault = "none" /\ HasUniqueIndex(indexes, "email")
    /\ last.model.ID = NilObjectID
    /\ WithValue(last.pre, "email", last.model.Email) # {}
    /\ ErrDuplicate \in last.err
    /\ \E c \in created : c.model.Email = last.model.Email

\* a well-formed identifier string: 24 hexadecimal digits
HexDigits ==
    {"0", "1", "2", "3", "4", "5", "6", "7", "8", "9",
     "a", "b", "c", "d", "e", "f", "A", "B", "C", "D", "E", "F"}

WellFormed(id) == Len(id) = 24 /\ \A i \in 1..Len(id) : id[i] \in HexDigits

\* the identifier strings of the last call
IdsOfLast == IF last.op = "FindByIDs" THEN IdLists[last.ids] ELSE <<last.id>>

\* C3: identifier validation.  FindByID, FindByIDs, Update and Delete with a
\* malformed identifier (for FindByIDs: anywhere in the list) fail with
\* ErrInvalidDocumentID, having made no call to the store.
C3_InvalidIdBeforeStore ==
    (/\ last.op \in {"FindByID", "FindByIDs", "Update", "Delete"}
     /\ \E i \in 1..Len(IdsOfLast) : ~WellFormed(IdsOfLast[i])) =>
        /\ ErrInvalidDocumentID \in last.err
        /\ last.calls = <<>>
        /\ collection = last.pre

\* C3's case: FindByIDs whose second identifier is the malformed one
C3_Witness ==
    /\ last.op = "FindByIDs" /\ last.ids = 4
    /\ WellFormed(IdLists[4][1]) /\ ~WellFormed(IdLists[4][2])
    /\ ErrInvalidDocumentID \in last.err
    /\ collection # <<>>

\* what a fragment asks of a document: the meaning of its constructor
RECURSIVE Satisfies(_, _)
Satisfies(doc, f) ==
    CASE f.op = "Eq" -> f.field \in DOMAIN doc /\ doc[f.field] = f.value
      [] f.op = "Gt" -> f.field \in DOMAIN doc /\ doc[f.field] > f.value
      [] f.op = "Lt" -> f.field \in DOMAIN doc /\ doc[f.field] < f.value
      [] f.op = "Gte" -> f.field \in DOMAIN doc /\ doc[f.field] >= f.value
      [] f.op = "Lte" -> f.field \in DOMAIN doc /\ doc[f.field] <= f.value
      [] f.op = "Ne" -> f.field \notin DOMAIN doc \/ doc[f.field] # f.value
      [] f.op = "In" ->
           f.field \in DOMAIN doc /\ \E i \in 1..Len(f.value) : doc[f.field] = f.value[i]
      [] f.op = "And" -> \A i \in 1..Len(f.subs) : Satisfies(doc, f.subs[i])
      [] f.op = "Or" -> \E i \in 1..Len(f.subs) : Satisfies(doc, f.subs[i])
      [] OTHER -> FALSE

\* the positions of the documents that satisfy every fragment of a list
Satisfying(coll, fs) ==
    {i \in 1..Len(coll) : \A n \in 1..Len(fs) : Satisfies(coll[i], fs[n])}

\* the positions of the documents with the identifier a string spells
WithId(coll, id) == {i \in 1..Len(coll) : Hex(coll[i]["_id"]) = Hex(ObjectIDFromHex(id).oid)}

\* the store takes the filter of a list of fragments for a query it can run
StoreAccepts(fs) == ~BadFilter(MarshalFilter(BuildFilter(fs)), indexes)

\* C4: not-found asymmetry for deletion.  Delete with a well-formed
\* identifier no stored document has fails with ErrNotFound and count 0;
\* DeleteMany with a filter the store runs and no stored document satisfies
\* returns count 0 and no error; the collection is unchanged in both cases.
C4_DeleteAsymmetry ==
    /\ (/\ last.op = "Delete" /\ last.fault = "none" /\ WellFormed(last.id)
        /\ WithId(last.pre, last.id) = {}) =>
           ErrNotFound \in last.err /\ last.count = 0 /\ collection = last.pre
    /\ (/\ last.op = "DeleteMany" /\ last.fault = "none"
        /\ StoreAccepts(FilterLists[last.fi])
        /\ Satisfying(last.pre, FilterLists[last.fi]) = {}) =>
           last.err = NoErr /\ last.count = 0 /\ collection = last.pre

\* C4's case: DeleteMany with a filter no document of a non-empty
\* collection satisfies
C4_Witness ==
    /\ last.op = "DeleteMany" /\ last.fault = "none" /\ last.fi = 5
    /\ Satisfying(last.pre, FilterLists[last.fi]) = {}
    /\ last.err = NoErr /\ last.count = 0
    /\ Len(collection) = MaxQueryDocs

\* C5: not-found asymmetry for updates.  Update with a well-formed identifier
\* no stored document has fails with ErrNotFound and count 0 and creates no
\* document; UpdateMany with a filter the store runs and no stored document
\* satisfies returns count 0 and no error.
C5_UpdateAsymmetry ==
    /\ (/\ last.op = "Update" /\ last.fault = "none" /\ WellFormed(last.id)
        /\ WithId(last.pre, last.id) = {}) =>
           ErrNotFound \in last.err /\ last.count = 0 /\ collection = last.pre
    /\ (/\ last.op = "UpdateMany" /\ last.fault = "none"
        /\ StoreAccepts(FilterLists[last.fi])
        /\ Satisfying(last.pre, FilterLists[last.fi]) = {}) =>
           last.err = NoErr /\ last.count = 0 /\ collection = last.pre

\* C5's case: Update of an identifier no document of a non-empty collection
\* has
C5_Witness ==
    /\ last.op = "Update" /\ last.fault = "none" /\ WellFormed(last.id)
    /\ WithId(last.pre, last.id) = {}
    /\ ErrNotFound \in last.err
    /\ Len(collection) = MaxQueryDocs

\* the kind of error an operation calls its own
OwnKind(op) ==
    CASE op = "Create" -> ErrFailedToCreate
      [] op = "FindByID" -> ErrFailedToFindByID
      [] op = "FindByIDs" -> ErrFailedToFindByIDs
      [] op = "Update" -> ErrFailedToUpdate
      [] op = "UpdateMany" -> ErrFailedToUpdateMany
      [] op = "Delete" -> ErrFailedToDelete
      [] op = "DeleteMany" -> ErrFailedToDeleteMany
      [] op = "FindOneByFilter" -> ErrFailedToFindOneByFilter
      [] op = "FindManyByFilter" -> ErrFailedToFindManyByFilter
      [] OTHER -> ErrFailedToCreateIndex

\* C6: every error an operation returns carries the operation's own kind.
C6_OwnKind ==
    (/\ last.op \in {"Create", "FindByID", "Update", "UpdateMany", "Delete", "DeleteMany",
                     "FindOneByFilter", "FindManyByFilter", "CreateIndex"}
     /\ last.err # NoErr) =>
        OwnKind(last.op) \in last.err

\* the filter document of the last paged read
WireOfLast ==
    IF last.op = "Search"
    THEN <<E("$text", [k |-> "doc", elems |-> <<E("$search", Lit(SearchTerms[last.term]))>>])>>
    ELSE MarshalFilter(BuildFilter(FilterLists[last.fi]))

\* the store's ordered sequence of matches for the last paged read: what its
\* cursor yields without skip and limit (nothing for a query it rejects)
StoreSequence ==
    Find(last.pre, indexes, WireOfLast,
         [skip |-> 0, limit |-> 0, sortByScore |-> (last.op = "Search")], "none").batch

\* the limit a paged read works with
LimitOfLast == IF last.limit = 0 THEN 10 ELSE last.limit

\* C7: pagination.  FindManyByFilter and Search with skip S and limit L
\* return at most L documents, those at positions S+1 .. S+L of the store's
\* ordered sequence of matches; limit 0 gives what limit 10 gives.
C7_Pagination ==
    (last.op \in {"FindManyByFilter", "Search"} /\ last.fault = "none") =>
        /\ Len(last.docs) <= LimitOfLast
        /\ Len(last.docs) = Min(LimitOfLast, Max(0, Len(StoreSequence) - last.skip))
        /\ \A k \in 1..Len(last.docs) : last.docs[k] = Decode(StoreSequence[last.skip + k])

\* C7's case: limit 0 over more than ten matches, after a skip
C7_Witness ==
    /\ last.op = "FindManyByFilter" /\ last.fault = "none"
    /\ last.limit = 0 /\ last.skip = 1
    /\ Len(StoreSequence) = 11
    /\ Len(last.docs) = 10

\* the relevance score of a document for the term of the last Search
ScoreOfLast(doc) == TextScore(doc, TheTextIndex(indexes), SearchTerms[last.term])

\* the positions of the stored documents the term of the last Search matches
MatchingLast ==
    {i \in 1..Len(last.pre) :
        TextMatches(last.pre[i], TheTextIndex(indexes), SearchTerms[last.term])}

\* C8: Search returns documents that match the term, in descending order of
\* score, and they are what skip and limit leave of the score-ordered
\* sequence of all matches: the k-th result has at most skip + k - 1 matches
\* of a higher score and at least skip + k matches of no lower score.
C8_SearchOrdered ==
    (last.op = "Search" /\ last.fault = "none" /\ HasTextIndex(indexes)) =>
        /\ \A k \in 1..(Len(last.docs) - 1) :
               ScoreOfLast(Encode(last.docs[k])) >= ScoreOfLast(Encode(last.docs[k + 1]))
        /\ \A k \in 1..Len(last.docs) :
               /\ \E i \in MatchingLast : Decode(last.pre[i]) = last.docs[k]
               /\ Cardinality({i \in MatchingLast :
                     ScoreOfLast(last.pre[i]) > ScoreOfLast(Encode(last.docs[k]))})
                    <= last.skip + k - 1
               /\ Cardinality({i \in MatchingLast :
                     ScoreOfLast(last.pre[i]) >= ScoreOfLast(Encode(last.docs[k]))})
                    >= last.skip + k
        /\ \A j, k \in 1..Len(last.docs) : j # k => last.docs[j] # last.docs[k]
        /\ Len(last.docs) = Min(LimitOfLast, Max(0, Cardinality(MatchingLast) - last.skip))

\* C8's case: a Search whose results have different scores, the stored
\* order of the matches being another than the order of their scores
C8_Witness ==
    /\ last.op = "Search" /\ last.fault = "none" /\ HasTextIndex(indexes)
    /\ Len(last.docs) >= 2
    /\ ScoreOfLast(Encode(last.docs[1])) > ScoreOfLast(Encode(last.docs[2]))
    /\ \E i, j \in MatchingLast :
          i < j /\ ScoreOfLast(last.pre[i]) < ScoreOfLast(last.pre[j])

\* the filter lists made of one And or Or fragment: And(P, Q), Or(P, Q) and
\* And(Or(P, Q), R)
Composed == {6, 7, 8}

\* the entities of the stored documents that satisfy a list of fragments, in
\* stored order
SatisfyingDocs(coll, fs) ==
    LET hit == SelectIdx(coll, Satisfying(coll, fs), 1)
    IN [k \in 1..Len(hit) |-> Decode(hit[k])]

\* C9: filter composition.  FindManyByFilter with And(p, q), with Or(p, q)
\* and with And(Or(p, q), r) returns exactly the stored documents that
\* satisfy the composition (read without skip, with the default limit, over
\* a population smaller than the limit).
C9_Composition ==
    (/\ last.op = "FindManyByFilter" /\ last.fault = "none"
     /\ last.fi \in Composed /\ last.skip = 0 /\ last.limit = 0) =>
        last.docs = SatisfyingDocs(last.pre, FilterLists[last.fi])

\* two accumulators that share no storage: different backing arrays, or one
\* of them with none
Separate(s, t) == s.arr = 0 \/ t.arr = 0 \/ s.arr # t.arr

\* C10: fragments are side-effect-free.  When a fragment is applied to an
\* accumulator, the filter it returns shows the accumulator's clauses
\* followed by exactly one new clause (that of the fragment); the
\* accumulator shows the clauses it showed before; every accumulator that
\* shares no storage with the one given shows the clauses it showed before,
\* and the returned filter shares no storage with it either - so of two
\* filters a fragment returned for two accumulators with storage of their
\* own, extending one never changes the other.
C10_SideEffectFree ==
    lastApply.op = "apply" =>
        LET in == accs[lastApply.in]
            out == accs[lastApply.out]
            before == lastApply.pre
            shown == Visible(arrays, out)
        IN /\ Len(shown) = Len(before[lastApply.in]) + 1
           /\ SubSeq(shown, 1, Len(shown) - 1) = before[lastApply.in]
           /\ shown[Len(shown)].Key = HeapFrags[lastApply.frag].field
           /\ Visible(arrays, in) = before[lastApply.in]
           /\ \A j \in 1..Len(before) :
                  Separate(accs[j], in) =>
                      /\ Visible(arrays, accs[j]) = before[j]
                      /\ Separate(accs[j], out)

\* C10's case: one fragment has been applied to two accumulators with
\* storage of their own, and one of the two filters is extended while the
\* other is looked at
C10_Witness ==
    /\ lastApply.op = "apply"
    /\ \E j \in 1..Len(lastApply.pre) :
          /\ j # lastApply.in
          /\ accs[j].frag # 0 /\ accs[j].frag = accs[lastApply.in].frag
          /\ accs[j].from # accs[lastApply.in].from
          /\ accs[accs[j].from].arr # 0 /\ accs[accs[lastApply.in].from].arr # 0
          /\ Separate(accs[accs[j].from], accs[accs[lastApply.in].from])
          /\ Separate(accs[j], accs[lastApply.in])
          /\ Visible(arrays, accs[j]) = lastApply.pre[j]
          /\ Len(lastApply.pre[j]) = 1

\* C11: Update is a full replacement.  After a successful Update(id, model)
\* the stored document with identifier id shows model's value in every
\* non-identifier field, empty values included, and every other document
\* is as it was.
C11_FullReplacement ==
    (last.op = "Update" /\ last.err = NoErr) =>
        /\ Len(collection) = Len(last.pre)
        /\ \A i \in 1..Len(collection) :
               IF i \in WithId(last.pre, last.id)
               THEN NonID(Decode(collection[i])) = NonID(last.model)
               ELSE collection[i] = last.pre[i]

\* C12: UpdateMany sets the fields of the update mapping, and no other, on
\* the documents that satisfy the filter, and on no other, and returns the
\* number of documents it changed (for a filter the store runs).
C12_UpdateManyFrame ==
    (/\ last.op = "UpdateMany" /\ last.fault = "none"
     /\ StoreAccepts(FilterLists[last.fi])) =>
        /\ last.err = NoErr
        /\ Len(collection) = Len(last.pre)
        /\ \A i \in 1..Len(collection) :
               IF i \in Satisfying(last.pre, FilterLists[last.fi])
               THEN /\ DOMAIN collection[i] = DOMAIN last.pre[i] \cup DOMAIN UpdateMaps[last.upd]
                    /\ \A k \in DOMAIN collection[i] :
                          collection[i][k] = IF k \in DOMAIN UpdateMaps[last.upd]
                                             THEN UpdateMaps[last.upd][k]
                                             ELSE last.pre[i][k]
               ELSE collection[i] = last.pre[i]
        /\ last.count = Cardinality({i \in 1..Len(collection) : collection[i] # last.pre[i]})

\* C12's case: UpdateMany changed one document and left another, which
\* does not satisfy the filter, alone
C12_Witness ==
    /\ last.op = "UpdateMany" /\ last.fault = "none" /\ last.err = NoErr
    /\ last.count = 1
    /\ \E i, j \in 1..Len(last.pre) :
          /\ i \in Satisfying(last.pre, FilterLists[last.fi])
          /\ j \notin Satisfying(last.pre, FilterLists[last.fi])
          /\ collection[i] # last.pre[i]

\* the text index configurations among the fragments of an option list
ConfigsOf(os) == {os[i].arg[1] : i \in {j \in 1..Len(os) : os[j].opt = "TextIndex"}}

\* the bson.D as a set of (key, value) entries
Entries(d) == {d[i] : i \in 1..Len(d)}

\* C13: CreateIndex with a field and the TextIndex option creates a text
\* index.  The index specification handed to the store has keys of the text
\* type over the fields of the TextIndexConfig, and carries the configured
\* weights, default language and name.
C13_TextIndexCreated ==
    (last.op = "CreateIndex" /\ Len(last.os) = 1 /\ ConfigsOf(last.os) # {}) =>
        \A config \in ConfigsOf(last.os) :
            /\ Entries(last.sent[1].keys) = {E(f.Key, "text") : f \in Entries(config.Fields)}
            /\ last.sent[1].opts.Weights # <<>>
            /\ Entries(last.sent[1].opts.Weights[1]) = Entries(config.Fields)
            /\ config.DefaultLang # "" => last.sent[1].opts.DefaultLanguage = <<config.DefaultLang>>
            /\ config.Name # <<>> => last.sent[1].opts.Name = <<config.Name>>

\* the fields of the options record a fragment sets
Targets(o) ==
    {f \in DOMAIN NewIndexOptions :
        \E v \in VisitsOfOption(o) : ApplyIndexOption(v, NewIndexOptions)[f] # <<>>}

\* no two fragments of the list set the same field
Disjoint(os) ==
    \A i, j \in 1..Len(os) : i # j => Targets(os[i]) \cap Targets(os[j]) = {}

\* two options records agree on a field; the weights are a mapping of fields
\* to weights, whose entries have no order
SameField(f, a, b) ==
    IF f = "Weights" /\ a[f] # <<>> /\ b[f] # <<>>
    THEN Entries(a[f][1]) = Entries(b[f][1])
    ELSE a[f] = b[f]

SameOptions(a, b) == \A f \in DOMAIN NewIndexOptions : SameField(f, a, b)

\* C14: the index options do not depend on the order of the fragments.  When
\* no two fragments of the list set the same field of the options record,
\* every permutation of the list gives the record that was handed to the
\* store; and a field that several fragments set holds what the last of them
\* sets (a field none sets is unset).
C14_OrderIndependent ==
    (last.op = "CreateIndex") =>
        LET sent == last.sent[1].opts IN
        /\ Disjoint(last.os) =>
              \A p \in Visits(last.os) : \A v \in VisitsOfOptions(p) :
                  SameOptions(ApplyIndexOptions(v, 1, NewIndexOptions), sent)
        /\ \A f \in DOMAIN NewIndexOptions :
              LET at == {i \in 1..Len(last.os) : f \in Targets(last.os[i])} IN
              IF at = {} THEN sent[f] = <<>>
              ELSE LET i == CHOOSE i \in at : \A j \in at : j <= i
                   IN SameField(f, ApplyIndexOption(last.os[i], NewIndexOptions), sent)

\* C14's case: three fragments, of which TTL and then ExpireAfterSeconds set
\* the expiry to different values and the third sets another field; the
\* store was handed the expiry of ExpireAfterSeconds
C14_Witness ==
    /\ last.op = "CreateIndex" /\ Len(last.os) = 3
    /\ last.os[1].opt = "TTL" /\ last.os[2].opt = "ExpireAfterSeconds"
    /\ ApplyIndexOption(last.os[1], NewIndexOptions).ExpireAfterSeconds = <<60>>
    /\ last.sent[1].opts.ExpireAfterSeconds = <<3600>>
    /\ last.sent[1].opts.Sparse = <<TRUE>>

\* the whole seconds of a duration, when an int32 holds them
WholeSeconds(d) == IF d.neg THEN 0 - Whole(d) ELSE Whole(d)

\* C15: TTL(d) is ExpireAfterSeconds of the whole seconds of d.  For every
\* duration d the options record TTL(d) produces is the one
\* ExpireAfterSeconds(s) produces, s being d cut to whole seconds: the
\* 32-bit expiry is the number of whole seconds in d.
C15_TTLWholeSeconds ==
    (last.op = "CreateIndex" /\ Len(last.os) = 1 /\ last.os[1].opt = "TTL") =>
        LET d == last.os[1].arg[1] IN
        /\ WholeFits(d)
        /\ last.sent[1].opts =
              ApplyIndexOption(ExpireAfterSeconds(WholeSeconds(d)), NewIndexOptions)

\* C16: CreateFullTextIndex(fieldWeights, language) hands the store one
\* index specification: its keys are of the text type over exactly the given
\* fields, its weights pair each field with its weight whatever order the
\* map was visited in, its default language is the given one, or "english"
\* when none was given, its name is that language followed by "_fts_index",
\* and it is sparse.
C16_FullTextIndexSpec ==
    (last.op = "CreateFullTextIndex") =>
        LET sent == last.sent[1]
            language == IF last.lang = "" THEN "english" ELSE last.lang
        IN /\ last.calls = <<"CreateOne">>
           /\ Len(sent.keys) = Len(last.w)
           /\ Entries(sent.keys) = {E(f.Key, "text") : f \in Entries(last.w)}
           /\ sent.opts.Weights # <<>>
           /\ Len(sent.opts.Weights[1]) = Len(last.w)
           /\ Entries(sent.opts.Weights[1]) = Entries(last.w)
           /\ sent.opts.DefaultLanguage = <<language>>
           /\ sent.opts.Name = <<<<language, "_fts_index">>>>
           /\ sent.opts.Sparse = <<TRUE>>

\* C16's case: a map of three fields visited in another order than it was
\* written in, no language given, and the index created
C16_Witness ==
    /\ last.op = "CreateFullTextIndex" /\ last.err = NoErr
    /\ last.lang = "" /\ Len(last.w) = 3
    /\ last.sent[1].opts.Weights[1] # last.w
    /\ last.sent[1].opts.Name = <<<<"english", "_fts_index">>>>
    /\ \E ix \in indexes : IsTextIndex(ix) /\ IndexFields(ix) = {"name", "bio", "tags"}

\* C17: the cursor is released.  When the Find of FindByIDs, FindManyByFilter
\* or Search succeeded and returned a cursor, the cursor is closed when the
\* operation returns, whether it returns the results, a decode error, an
\* iteration error or not-found for an empty result.
C17_CursorReleased ==
    (last.op \in {"FindByIDs", "FindManyByFilter", "Search"} /\ last.find = "open") =>
        /\ last.cursor = "closed"
        /\ \/ last.err = NoErr /\ last.docs # <<>>
           \/ RawDecode \in last.err
           \/ RawIO \in last.err
           \/ ErrNotFound \in last.err /\ last.docs = <<>>

\* C17's case: FindByIDs found documents and the first of them did not decode
C17_Witness ==
    /\ last.op = "FindByIDs" /\ last.find = "open"
    /\ last.fault = "decode" /\ RawDecode \in last.err
    /\ last.cursor = "closed"

\* C18: Exists never reports not-found.  Exists returns true and no error
\* exactly when at least one document satisfies the filter, which is when
\* Count is at least 1, and false and no error, not the not-found kind, when
\* none does (for a filter the store runs and a call the driver does not
\* fail); no error of Exists is of the not-found kind.
C18_ExistsNeverNotFound ==
    (last.op = "Exists") =>
        /\ ErrNotFound \notin last.err
        /\ (last.fault = "none" /\ StoreAccepts(FilterLists[last.fi])) =>
              /\ last.err = NoErr
              /\ last.found = (Cardinality(Satisfying(last.pre, FilterLists[last.fi])) >= 1)

\* Count returns the number of documents that satisfy the filter
C18_CountAgrees ==
    (last.op = "Count" /\ last.fault = "none" /\ StoreAccepts(FilterLists[last.fi])) =>
        /\ last.err = NoErr
        /\ last.count = Cardinality(Satisfying(last.pre, FilterLists[last.fi]))

\* C18's case: Exists over a collection that holds documents, none of which
\* satisfies the filter, returned false and no error
C18_Witness ==
    /\ last.op = "Exists" /\ last.fault = "none" /\ StoreAccepts(FilterLists[last.fi])
    /\ last.pre # <<>>
    /\ Satisfying(last.pre, FilterLists[last.fi]) = {}
    /\ last.found = FALSE /\ last.err = NoErr

\* the goroutines whose Create of an entity with the email v has returned,
\* the driver not having failed
Returned(v) ==
    {g \in DOMAIN procs : procs[g].pc = "done" /\ procs[g].fault = "none"
                          /\ procs[g].model.Email = v}

\* C19: the repository is safe to use from several goroutines.  No step
\* changes the collection field after the constructor; and however the
\* concurrent Create calls of entities with the same value of a uniquely
\* indexed field interleave, at most one document with the value is ever
\* stored, and once all calls have returned exactly one of those the driver
\* did not fail has succeeded, the others have failed with the duplicate
\* kind, and exactly one document with the value is stored.
C19_ConcurrentCreate ==
    /\ [][handle' = handle]_vars
    /\ [](\A v \in {"x", "y"} :
            /\ Cardinality(WithValue(collection, "email", v)) <= 1
            /\ Cardinality({g \in Returned(v) : procs[g].err = NoErr}) <= 1
            /\ \A g \in Returned(v) : procs[g].err = NoErr \/ ErrDuplicate \in procs[g].err
            /\ ((\A g \in DOMAIN procs : procs[g].pc = "done") /\ Returned(v) # {}) =>
                  /\ Cardinality({g \in Returned(v) : procs[g].err = NoErr}) = 1
                  /\ Cardinality(WithValue(collection, "email", v)) = 1)

\* C19's case: two calls of Create with the same email are under way at the
\* same time, neither has returned; the server has stored the document of
\* one and refused the other as a duplicate, and one document with the
\* email is stored
C19_Witness ==
    /\ \E g, h \in DOMAIN procs :
          /\ g # h
          /\ procs[g].pc = "reply" /\ procs[h].pc = "reply"
          /\ procs[g].model.Email = "x" /\ procs[h].model.Email = "x"
          /\ procs[g].reply[1].err = NoErr
          /\ CreateResult(procs[g].reply[1]).rid # <<>>
          /\ ErrDuplicate \in CreateResult(procs[h].reply[1]).err
    /\ Cardinality(WithValue(collection, "email", "x")) = 1

\* what a fragment returns for a fresh empty accumulator: f(bson.D{})
OnFresh(f) ==
    LET r == CallFilterFunc(<<>>, f, [arr |-> 0, len |-> 0]) IN Visible(r.arrays, r.slice)

\* C20: the clause of And and Or.  For a list of n >= 0 children, And (Or)
\* appends exactly one clause to the accumulator it is given, with the key
\* "$and" ("$or"), whose value is an array with one clause per child, in the
\* order of the children, each the clause the child returns for a fresh
\* empty accumulator; a child that is a combinator gives one logical clause,
\* and no child gives an empty array.
C20_CombinatorClause ==
    (lastApply.op = "combine") =>
        LET f == lastApply.f
            before == lastApply.pre[lastApply.in]
            after == Visible(arrays, accs[lastApply.out])
            clause == after[Len(after)]
        IN /\ Len(after) = Len(before) + 1
           /\ SubSeq(after, 1, Len(before)) = before
           /\ clause.Key = (IF f.op = "And" THEN "$and" ELSE "$or")
           /\ clause.Value.k = "sliceE"
           /\ Len(clause.Value.elems) = Len(f.subs)
           /\ \A k \in 1..Len(f.subs) :
                 /\ <<clause.Value.elems[k]>> = OnFresh(f.subs[k])
                 /\ f.subs[k].op \in {"And", "Or"} =>
                       /\ clause.Value.elems[k].Key = (IF f.subs[k].op = "And" THEN "$and" ELSE "$or")
                       /\ clause.Value.elems[k].Value.k = "sliceE"
                       /\ Len(clause.Value.elems[k].Value.elems) = Len(f.subs[k].subs)
                 /\ f.subs[k].op \notin {"And", "Or"} => clause.Value.elems[k].Key = f.subs[k].field

\* C20's case: And of a comparison, a nested Or and another comparison was
\* applied to an accumulator that held a clause, and the accumulator returned
\* shows that clause and one more, of three conditions
C20_Witness ==
    /\ lastApply.op = "combine" /\ lastApply.f.op = "And"
    /\ Len(lastApply.f.subs) = 3 /\ lastApply.f.subs[2].op = "Or"
    /\ lastApply.pre[lastApply.in] # <<>>
    /\ Len(Visible(arrays, accs[lastApply.out])) = Len(lastApply.pre[lastApply.in]) + 1
    /\ Len(Visible(arrays, accs[lastApply.out])[Len(lastApply.pre[lastApply.in]) + 1].Value.elems) = 3

\* C20's other case: Or of no child has appended a clause with an empty array
C20_WitnessEmpty ==
    /\ lastApply.op = "combine" /\ lastApply.f = Or(<<>>)
    /\ Visible(arrays, accs[lastApply.out]) = <<E("$or", [k |-> "sliceE", elems |-> <<>>])>>

\* the positions of the stored documents whose identifier is in the list of
\* the last FindByIDs
InList == UNION {WithId(last.pre, IdsOfLast[k]) : k \in 1..Len(IdsOfLast)}

\* C21: FindByIDs with well-formed identifiers only returns exactly the
\* stored documents whose identifier is in the list, each once, whatever
\* identifiers of the list no document has and however often one is listed;
\* it fails with ErrNotFound, and returns no sequence, exactly when no
\* document has an identifier of the list.
C21_FindByIDsExact ==
    (/\ last.op = "FindByIDs" /\ last.fault = "none"
     /\ \A k \in 1..Len(IdsOfLast) : WellFormed(IdsOfLast[k])) =>
        IF InList = {}
        THEN ErrNotFound \in last.err /\ last.docs = <<>>
        ELSE /\ last.err = NoErr
             /\ Len(last.docs) = Cardinality(InList)
             /\ {last.docs[k] : k \in 1..Len(last.docs)} = {Decode(last.pre[i]) : i \in InList}

\* C21's case: a list of three identifiers, one of them of no stored
\* document, over a collection of two documents: both are returned
C21_Witness ==
    /\ last.op = "FindByIDs" /\ last.fault = "none" /\ last.err = NoErr
    /\ Len(IdsOfLast) = 3 /\ \A k \in 1..3 : WellFormed(IdsOfLast[k])
    /\ \E k \in 1..3 : WithId(last.pre, IdsOfLast[k]) = {}
    /\ Len(last.pre) = 2 /\ Len(last.docs) = 2
    /\ last.docs[1] # last.docs[2]

\* C21's other cases: an identifier listed twice gives its document once;
\* a list whose identifiers no document has, over a collection that is not
\* empty, gives ErrNotFound
C21_WitnessTwice ==
    /\ last.op = "FindByIDs" /\ last.err = NoErr
    /\ Len(IdsOfLast) = 2 /\ IdsOfLast[1] = IdsOfLast[2] /\ Len(last.docs) = 1

C21_WitnessNone ==
    /\ last.op = "FindByIDs" /\ last.fault = "none" /\ last.pre # <<>>
    /\ IdsOfLast # <<>> /\ InList = {} /\ ErrNotFound \in last.err

\* the positions at which the collection differs from what it was before the
\* last call
Changed == {i \in 1..Len(last.pre) : i > Len(collection) \/ collection[i] # last.pre[i]}

\* C22: the count of Update is the number of documents modified, 0 or 1.
\* Update of a stored document returns 1 and no error when it changes a
\* stored field, and 0 and no error when the stored document has the given
\* values already; it returns ErrNotFound, with 0, only when no document has
\* the identifier.
C22_UpdateCount ==
    (last.op = "Update") =>
        /\ last.count \in {0, 1}
        /\ Len(collection) = Len(last.pre)
        /\ last.count = Cardinality(Changed)
        /\ Changed # {} => last.err = NoErr /\ Changed \subseteq WithId(last.pre, last.id)
        /\ \A i \in 1..Len(last.pre) :
              (/\ WellFormed(last.id) /\ i \in WithId(last.pre, last.id)
               /\ last.fault = "none") =>
                  /\ SetFields(last.pre[i], Encode(last.model)) = last.pre[i] =>
                        last.count = 0 /\ last.err = NoErr
                  /\ last.err = NoErr =>
                        /\ collection[i] = SetFields(last.pre[i], Encode(last.model))
                        /\ last.count = IF collection[i] = last.pre[i] THEN 0 ELSE 1
        /\ ErrNotFound \in last.err =>
              /\ last.count = 0
              /\ WellFormed(last.id) /\ WithId(last.pre, last.id) = {}

\* C22's case: Update of a stored document with the values it has, over a
\* collection of two documents: 0 and no error
C22_Witness ==
    /\ last.op = "Update" /\ last.fault = "none" /\ last.err = NoErr
    /\ last.count = 0 /\ Len(last.pre) = 2
    /\ WithId(last.pre, last.id) # {}

\* C22's other case: Update changed a field of a stored document: 1
C22_WitnessOne ==
    /\ last.op = "Update" /\ last.err = NoErr /\ last.count = 1
    /\ \E i \in WithId(last.pre, last.id) : collection[i]["email"] # last.pre[i]["email"]

\* the store runs the query of the last paged read
StoreRunsLast ==
    Find(last.pre, indexes, WireOfLast,
         [skip |-> 0, limit |-> 0, sortByScore |-> (last.op = "Search")], "none").err = NoErr

\* the page skip and limit select of the matches is empty
PageEmpty == last.skip >= Len(StoreSequence) \/ LimitOfLast < 1

\* C23: FindManyByFilter and Search fail with ErrNotFound exactly when the
\* page that skip and limit select is empty, also when documents match and
\* the skip is at least their number (for a query the store runs and a call
\* the driver does not fail); they never return an empty sequence and no
\* error, and never ErrNotFound for a page that is not empty.
C23_EmptyPageNotFound ==
    (last.op \in {"FindManyByFilter", "Search"}) =>
        /\ ~(last.docs = <<>> /\ last.err = NoErr)
        /\ ErrNotFound \in last.err => PageEmpty /\ last.docs = <<>>
        /\ (last.fault = "none" /\ StoreRunsLast) =>
              /\ PageEmpty => ErrNotFound \in last.err
              /\ ~PageEmpty => last.err = NoErr /\ last.docs # <<>>

\* C23's case: FindManyByFilter with a filter that documents satisfy and a
\* skip of their number fails with ErrNotFound
C23_Witness ==
    /\ last.op = "FindManyByFilter" /\ last.fault = "none" /\ StoreRunsLast
    /\ Len(StoreSequence) = 2 /\ last.skip = 2
    /\ ErrNotFound \in last.err /\ last.docs = <<>>

\* the same of Search
C23_WitnessSearch ==
    /\ last.op = "Search" /\ last.fault = "none" /\ StoreRunsLast
    /\ Len(StoreSequence) > 0 /\ last.skip >= Len(StoreSequence)
    /\ ErrNotFound \in last.err /\ last.docs = <<>>

\* C24: a Create that returns an error has added no document.  On every
\* failure of Create (the store or the driver fails, the key is a duplicate,
\* the inserted identifier is no ObjectID) the collection is what it was
\* before the call.
C24_FailedCreateAddsNothing ==
    (last.op = "Create" /\ last.err # NoErr) => collection = last.pre

\* C25: filters derived from one accumulator are independent.  When a
\* fragment g is applied to an accumulator A, every filter F a fragment f
\* returned for A before still shows A's clauses followed by the clause of
\* f: computing g(A) writes over no clause of F.
C25_DerivedIndependent ==
    lastApply.op = "apply" =>
        \A j \in 1..Len(lastApply.pre) :
            (accs[j].frag # 0 /\ accs[j].from = lastApply.in) =>
                /\ Visible(arrays, accs[j]) = lastApply.pre[j]
                /\ Visible(arrays, accs[j]) =
                      lastApply.pre[lastApply.in] \o Clauses(HeapFrags[accs[j].frag])

====
